---- MODULE Spec2Model ----
(***************************************************************************)
(* Model of the on-device runtime of the rp-rot firmware                   *)
(* (src/Embedded/rp-rot): the wireless join with bounded retries, the      *)
(* configuration fetch agent with the shared configuration store and the   *)
(* control loop that reads it, and the telemetry agent.                    *)
(* The two cloud services the device talks to (src/Cloud/device-config,    *)
(* src/Cloud/device-comms) are modelled by their request handlers.         *)
(*                                                                         *)
(* The specifications share the module; each leaves the variables of the   *)
(* other components unchanged:                                             *)
(*   SpecWifi           WiFiDriver::connect_with_retry, every WiFiConfig   *)
(*   SpecFetch          config_fetch_task, the store and the control loop  *)
(*   SpecTelemetry      telemetry_task and send_telemetry                  *)
(*   SpecTelemetryFair  SpecTelemetry under fair scheduling                *)
(*   SpecSpawn          telemetry_task spawned with any TelemetryTaskConfig *)
(*   SpecAgents         the two agents side by side, with their sockets    *)
(*   SpecSetup          NetworkStack::setup_and_wait and the stack's status *)
(*   SpecStartup        main from its first join on, and the tasks it spawns *)
(*   SpecStartupFair    SpecStartup with main scheduled fairly              *)
(*   SpecStore          the store, its mutex and the executor, step by step *)
(*   SpecStoreFair      SpecStore under fair scheduling                     *)
(*   SpecControl(Fair)  the fetch agent and the control loop, one-entry    *)
(*                      responses                                          *)
(*   SpecConfigSvc      the cloud configuration service (Cloud/device-config) *)
(*   SpecCommsSvc       the cloud telemetry service (Cloud/device-comms)   *)
(* The tasks are cooperative: an action is the code between two            *)
(* suspension points (.await that can actually suspend).                   *)
(***************************************************************************)
EXTENDS Integers, Sequences, FiniteSets, TLC

VARIABLES
    \* ---- WiFiDriver::connect_with_retry (drivers/wifi.rs)
    wfPc,            \* "call" | "join" | "delay" | "done"
    wfCfg,           \* the WiFiConfig passed in
    retry_count,     \* the u8 local retry_count
    wfResult,        \* "none" | "Ok" | "Join" | "Timeout"
    wfAttempts,      \* history: control.join calls made
    wfFailures,      \* history: control.join calls that returned Err
    wfWaited,        \* history: seconds waited in Timer::after between attempts
    wfDelays,        \* history: number of Timer::after waits
    \* ---- configuration store, config_fetch_task, control loop
    store,           \* the Option<DeviceConfigItem> inside the mutex
    cfPc,            \* "dns" | "connect" | "write" | "read" | "sleep"
    cfResult,        \* result of the last fetch_and_update_config
    cfResp,          \* history: what the last socket.read delivered
    cfPre,           \* history: the store when the current cycle started
    cfLastSet,       \* history: argument of the last set_device_config
    cfSets,          \* history: set_device_config calls made (saturating)
    mainPc,          \* "poll" | "sleep"
    mainGot,         \* what the control loop's last get_device_config returned
    cfSockets,       \* the TCP sockets of fetch_and_update_config calls in the stack's socket set
    led,             \* level of the LED output pin
    cfWaited,        \* history: seconds the fetch agent waited in its last timer
    \* ---- telemetry_task / send_telemetry
    telPc,           \* "check" | "dns" | "connect" | "write" | "read" | "closing" | "tick"
    telemetry_interval, \* the loop counter of telemetry_task
    telResult,       \* result of the last send_telemetry
    telResp,         \* history: what the last socket.read delivered
    telLog,          \* the line logged last in the cycle: about the response, or about a sensor
    telBody,         \* the JSON body send_telemetry formatted last
    telSteps,        \* the steps send_telemetry has taken in its current call
    telAttempts,     \* history: send_telemetry calls made (saturating)
    failStreak,      \* history: consecutive failed send_telemetry calls (saturating)
    gap,             \* history: one-second ticks since the last send_telemetry ended
    skipped,         \* history: a due cycle since then sent nothing (a sensor read failed)
    lastGap,         \* history: value of gap when the last send_telemetry started
    sinceRead,       \* history: one-second ticks since the sensors were last read
    sensed,          \* history: what the sensor reads of the cycle gave, "none" without reads
    interval_seconds, \* config.interval_seconds, the TelemetryTaskConfig given at spawn
    telSockets,      \* the TCP sockets of send_telemetry calls in the stack's socket set
    \* ---- the network stack as the tasks see it
    configUp,        \* stack.is_config_up()
    linkUp,          \* stack.is_link_up()
    everConfigUp,    \* history: is_config_up() has been true at some moment
    everLinkUp,      \* history: is_link_up() has been true at some moment
    \* ---- NetworkStack::setup_and_wait (network/mod.rs)
    nwPc,            \* "start" | "dhcpWait" | "linkWait" | "stackWait" | "pause" | "done"
    dhcp_timeout,    \* the local dhcp_timeout
    link_timeout,    \* the local link_timeout
    stack_timeout,   \* the local stack_timeout
    nwResult,        \* "none" | "Ok" | "Err"
    nwTrace,         \* history: what the call saw come true and did, in order
    nwLinkPolls,     \* history: evaluations of the link-up loop test
    nwWaited,        \* history: milliseconds spent in the timers of each phase
    \* ---- the statics of utils/config_store.rs
    DEVICE_CONFIG_REF, \* "None" | "Some": the reference to the initialized mutex
    initCalls,       \* history: init_config_store calls made
    panicMsg,        \* "none", or the message of the panic that stopped the device
    \* ---- the boot sequence in main (main.rs)
    bootPc,          \* where main is suspended: "join" | "joinDelay" | "joined" | "dhcpWait" |
                     \* "dhcpUp" | "linkWait" | "linkUp" | "stackWait" | "stackUp" | "loop" | "fault"
    wifi_retry_count, \* the u8 local wifi_retry_count
    main_dhcp_timeout, \* the local dhcp_timeout of main
    bootJoins,       \* history: control.join calls made by main
    joined,          \* history: a control.join of main returned Ok
    bootReady,       \* history: wait_config_up returned
    faultBlinks,     \* history: timers waited in the error blink loop (saturating)
    \* ---- the executor and the mutex of the store, step by step
    running,         \* the task the executor is polling: "none" | "fetch" | "main"
    locked,          \* the state of the Mutex around the slot
    holders,         \* history: the tasks that hold a MutexGuard
    stPc,            \* where each task is in set_device_config / get_device_config
    stArg,           \* the argument of the set_device_config in progress
    stClone,         \* the clone that get_device_config is building
    setArgs,         \* history: the arguments of the set_device_config calls that returned
    \* ---- the cloud configuration service (Cloud/device-config)
    cfgDocs,         \* the documents of the Cosmos DB container
    cfgNow,          \* chrono::Utc::now() of the service
    cfgReq,          \* the request handled last
    cfgResp,         \* the response to it
    cfgLatest,       \* history: per device id, the configuration of its last accepted update
    \* ---- the cloud telemetry service (Cloud/device-comms)
    tmDocs,          \* the documents of the telemetry container, in insertion order
    tmReq,           \* the request handled last
    tmResp           \* the response to it, and the ApiError the handler logged

wifiVars == <<wfPc, wfCfg, retry_count, wfResult, wfAttempts, wfFailures, wfWaited, wfDelays>>
fetchVars == <<store, cfPc, cfResult, cfResp, cfPre, cfLastSet, cfSets, mainPc, mainGot, led>>
telVars ==
    <<telPc, telemetry_interval, telResult, telResp, telLog, telAttempts, failStreak, gap, skipped, lastGap,
      telBody, telSteps, sinceRead, sensed>>
netVars == <<configUp, linkUp, everConfigUp, everLinkUp>>
setupVars == <<nwPc, dhcp_timeout, link_timeout, stack_timeout, nwResult, nwTrace, nwLinkPolls, nwWaited>>
cellVars == <<DEVICE_CONFIG_REF, initCalls, panicMsg>>
bootVars == <<bootPc, wifi_retry_count, main_dhcp_timeout, bootJoins, joined, bootReady, faultBlinks>>
lockVars == <<running, locked, holders, stPc, stArg, stClone, setArgs>>
configSvcVars == <<cfgDocs, cfgNow, cfgReq, cfgResp, cfgLatest>>
commsSvcVars == <<tmDocs, tmReq, tmResp>>
cloudVars == <<configSvcVars, commsSvcVars>>
sockVars == <<cfSockets, telSockets>>
vars ==
    <<wifiVars, fetchVars, telVars, netVars, setupVars, cellVars, bootVars, lockVars, cloudVars, interval_seconds,
      cfWaited, sockVars>>

\* what the actions of one component leave alone
notWifi ==
    <<fetchVars, telVars, netVars, setupVars, cellVars, bootVars, lockVars, cloudVars, interval_seconds, cfWaited,
      sockVars>>
\* what the timer of the fetch agent leaves alone
aroundTimer ==
    <<wifiVars, telVars, netVars, setupVars, bootVars, lockVars, cloudVars, interval_seconds, cellVars,
      telSockets>>
aroundStore ==
    <<wifiVars, telVars, netVars, setupVars, bootVars, lockVars, cloudVars, interval_seconds, cfWaited,
      telSockets>>
notFetch == <<aroundStore, cellVars>>
notTel ==
    <<wifiVars, fetchVars, netVars, setupVars, cellVars, bootVars, lockVars, cloudVars, interval_seconds, cfWaited,
      cfSockets>>
notNet ==
    <<wifiVars, fetchVars, telVars, setupVars, cellVars, bootVars, lockVars, cloudVars, interval_seconds, cfWaited,
      sockVars>>
notSetup ==
    <<wifiVars, fetchVars, telVars, cellVars, bootVars, lockVars, cloudVars, interval_seconds, cfWaited,
      sockVars>>
notBoot ==
    <<wifiVars, netVars, setupVars, lockVars, cloudVars, interval_seconds, cfWaited, telSockets>>
notLock ==
    <<wifiVars, telVars, netVars, setupVars, cellVars, bootVars, cloudVars, interval_seconds, cfWaited,
      telSockets>>
device ==
    <<wifiVars, fetchVars, telVars, netVars, setupVars, cellVars, bootVars, lockVars, cfWaited,
      interval_seconds, sockVars>>
notConfigSvc == <<device, commsSvcVars>>
notCommsSvc == <<device, configSvcVars>>

Min(a, b) == IF a <= b THEN a ELSE b

(***************************************************************************)
(* Bounds of the model.                                                    *)
(***************************************************************************)
MaxRetriesBound == 4     \* max_retries ranges over 0..MaxRetriesBound
MaxDelaySecs == 2        \* retry_delay_secs ranges over 1..MaxDelaySecs

(***************************************************************************)
(* Option<T>: None is the empty sequence, Some(x) the one-element one.     *)
(***************************************************************************)
None == <<>>
Some(x) == <<x>>

(***************************************************************************)
(* WiFiDriver::connect_with_retry                                          *)
(***************************************************************************)
U8 == 256

\* the configurations of a call: max_retries is a u8, taken from its low end
\* and at its largest value
WiFiConfigs ==
    [network : {"", "ssid"}, password : {"", "secret"},
     max_retries : (0..MaxRetriesBound) \cup {U8 - 1}, retry_delay_secs : 1..MaxDelaySecs]

\* mutant of CredentialsEmpty: only the network name is checked
NetworkEmpty(config) == config.network = ""

\* config.network.is_empty() || config.password.is_empty()
CredentialsEmpty(config) == config.network = "" \/ config.password = ""

\* mutant of RetriesExhausted: the comparison is off by one
RetriesExceeded(count, config) == count > config.max_retries

\* mutant of RetriesExhausted: a limit of zero never ends the retries
ExhaustedUnlessZero(count, config) == config.max_retries > 0 /\ count >= config.max_retries

\* retry_count >= config.max_retries
RetriesExhausted(count, config) == count >= config.max_retries

\* mutant of RetryDelay: a delay that doubles with every failure
DoublingDelay(config, count) == config.retry_delay_secs * 2 ^ (count - 1)

\* Duration::from_secs(config.retry_delay_secs), whatever retry_count is
RetryDelay(config, count) == config.retry_delay_secs

WifiInit ==
    /\ wfPc = "call"
    /\ wfCfg \in WiFiConfigs
    /\ retry_count = 0
    /\ wfResult = "none"
    /\ wfAttempts = 0
    /\ wfFailures = 0
    /\ wfWaited = 0
    /\ wfDelays = 0

\* entry of connect_with_retry: the credential check and `let mut retry_count = 0`
WfCall ==
    /\ wfPc = "call"
    /\ IF CredentialsEmpty(wfCfg)
         THEN /\ wfPc' = "done"
              /\ wfResult' = "Join"
         ELSE /\ wfPc' = "join"
              /\ wfResult' = wfResult
    /\ retry_count' = 0
    /\ UNCHANGED <<wfCfg, wfAttempts, wfFailures, wfWaited, wfDelays>>
    /\ UNCHANGED notWifi

\* control.join(...).await and the match on its result
WfJoin(ok) ==
    /\ wfPc = "join"
    /\ wfAttempts' = wfAttempts + 1
    /\ IF ok
         THEN /\ wfPc' = "done"
              /\ wfResult' = "Ok"
              /\ UNCHANGED <<retry_count, wfFailures>>
         ELSE /\ retry_count' = (retry_count + 1) % U8
              /\ wfFailures' = wfFailures + 1
              /\ IF RetriesExhausted(retry_count', wfCfg)
                   THEN wfPc' = "done" /\ wfResult' = "Timeout"
                   ELSE wfPc' = "delay" /\ wfResult' = wfResult
    /\ UNCHANGED <<wfCfg, wfWaited, wfDelays>>
    /\ UNCHANGED notWifi

\* Timer::after(Duration::from_secs(config.retry_delay_secs)).await
WfDelay ==
    /\ wfPc = "delay"
    /\ wfPc' = "join"
    /\ wfWaited' = wfWaited + RetryDelay(wfCfg, retry_count)
    /\ wfDelays' = wfDelays + 1
    /\ UNCHANGED <<wfCfg, retry_count, wfResult, wfAttempts, wfFailures>>
    /\ UNCHANGED notWifi

WifiNext ==
    \/ WfCall
    \/ \E ok \in BOOLEAN : WfJoin(ok)
    \/ WfDelay

(***************************************************************************)
(* Device configuration (config/device.rs) and the configuration response. *)
(* A response text is a sequence of tokens: a run of text that holds no    *)
(* '[' (status line, headers, anything else), the JSON punctuation '[',    *)
(* ']' and ',', or a JSON object that deserializes to a DeviceConfigItem.  *)
(***************************************************************************)
DEVICE_ID == "dev1"      \* env!("DEVICE_ID") of this device
OtherId == "dev2"        \* the identifier of some other device
MAX_CONFIGS == 1

MaxEntries == 2          \* entries in a response array
MaxHeader == 1           \* pieces of text ahead of the body
MaxCount == 2            \* the saturating history counters stop here

\* a DeviceConfigItem whose config holds LED: Some(value)
Item(id, value) == [device_id |-> id, config |-> [LED |-> Some(value)]]
\* a DeviceConfigItem whose config holds LED: None (the field is null)
Unset(id) == [device_id |-> id, config |-> [LED |-> None]]
\* the entries of the response arrays
Items == {Item(DEVICE_ID, "on"), Item(DEVICE_ID, "off"), Item(OtherId, "on")}
\* entries with every kind of LED setting: "on", "off", a string the
\* firmware gives no meaning to, and none
LedItems == Items \cup {Item(DEVICE_ID, "dim"), Unset(DEVICE_ID)}
NoItem == Item("", "")

Tok(kind, item) == [k |-> kind, item |-> item]
Text == Tok("text", NoItem)
LBracket == Tok("[", NoItem)
RBracket == Tok("]", NoItem)
Comma == Tok(",", NoItem)
Obj(item) == Tok("obj", item)

\* the entries of an array as they stand on the wire: e1 , e2 , ...
RECURSIVE Joined(_)
Joined(es) ==
    IF Len(es) = 0 THEN <<>>
    ELSE IF Len(es) = 1 THEN <<Obj(es[1])>>
    ELSE <<Obj(es[1]), Comma>> \o Joined(Tail(es))

EntryLists == UNION {[1..n -> Items] : n \in 0..MaxEntries}
\* what precedes the body: status line and headers, which may hold a '['
Headers == UNION {[1..n -> {Text, LBracket}] : n \in 0..MaxHeader}
\* how the text goes on after the last entry: the array is closed, cut off,
\* closed and followed by more text, or has a dangling comma
Endings == {<<RBracket>>, <<>>, <<RBracket, Text>>, <<Comma, RBracket>>}
\* the response texts: headers without a body, and headers followed by '['
\* and an array of entries with one of the endings
Texts ==
    Headers \cup
    {h \o <<LBracket>> \o Joined(es) \o e : h \in Headers, es \in EntryLists, e \in Endings}

\* what socket.read(&mut buf) delivers: an error, or n bytes that are valid
\* UTF-8 (the text) or not; `rest` is what the peer sends after the segment
\* that the read returned
ReadErr == [kind |-> "err", utf8 |-> FALSE, text |-> <<>>, rest |-> <<>>]
BadBytes == [kind |-> "bytes", utf8 |-> FALSE, text |-> <<>>, rest |-> <<>>]
Bytes(t) == [kind |-> "bytes", utf8 |-> TRUE, text |-> t, rest |-> <<>>]
NoRead == [kind |-> "none", utf8 |-> FALSE, text |-> <<>>, rest |-> <<>>]

\* a response that arrives in segments: the read returns the first of them
Segmented(first, rest) == [kind |-> "bytes", utf8 |-> TRUE, text |-> first, rest |-> rest]

\* well-formed responses with one entry, of this device
WholeResponses ==
    {h \o <<LBracket, Obj(it), RBracket>> :
        h \in {<<>>, <<Text>>}, it \in {i \in Items : i.device_id = DEVICE_ID}}

\* each of them cut in two at every place
SegmentedReads ==
    UNION {{Segmented(SubSeq(w, 1, k), SubSeq(w, k + 1, Len(w))) : k \in 1..(Len(w) - 1)} :
             w \in WholeResponses}

ConfigReads == {ReadErr, BadBytes} \cup {Bytes(t) : t \in Texts} \cup SegmentedReads

\* mutant of Received: the response is read until the peer closes
ReceivedAll(read) == read.text \o read.rest

\* &buf[..n] after the one socket.read: the bytes of the segment it returned
Received(read) == read.text

\* mutant of Find: only a token at the very start of the text is found
FindAtStart(text, kind) == IF Len(text) > 0 /\ text[1].k = kind THEN 1 ELSE 0

\* str::find: index of the first token of the kind, 0 when there is none
Find(text, kind) ==
    LET hits == {i \in 1..Len(text) : text[i].k = kind}
    IN  IF hits = {} THEN 0 ELSE CHOOSE i \in hits : \A j \in hits : i <= j

\* mutant of VecPush: a vector that grows without a capacity
VecPushUnbounded(v, x) == [ok |-> TRUE, v |-> Append(v, x)]

\* heapless::Vec::push on a Vec<DeviceConfigItem, MAX_CONFIGS>
VecPush(v, x) ==
    IF Len(v) < MAX_CONFIGS
      THEN [ok |-> TRUE, v |-> Append(v, x)]
      ELSE [ok |-> FALSE, v |-> v]

ParseError == [ok |-> FALSE, v |-> <<>>]
Parsed(v) == [ok |-> TRUE, v |-> v]

\* Deserializer::end: anything left after the value is TrailingCharacters
ParseEnd(s, i, acc) == IF i > Len(s) THEN Parsed(acc) ELSE ParseError

\* the sequence visitor of heapless::Vec: one element, then ',' or ']'
RECURSIVE ParseElements(_, _, _)
ParseElements(s, i, acc) ==
    IF i > Len(s) \/ s[i].k # "obj" THEN ParseError
    ELSE LET pushed == VecPush(acc, s[i].item)
         IN  IF ~pushed.ok THEN ParseError
             ELSE IF i + 1 > Len(s) THEN ParseError
             ELSE IF s[i + 1].k = "]" THEN ParseEnd(s, i + 2, pushed.v)
             ELSE IF s[i + 1].k = "," THEN ParseElements(s, i + 2, pushed.v)
             ELSE ParseError

\* serde_json_core::de::from_str::<DeviceConfigResponse>
from_str(s) ==
    IF Len(s) = 0 \/ s[1].k # "[" THEN ParseError
    ELSE IF Len(s) >= 2 /\ s[2].k = "]" THEN ParseEnd(s, 3, <<>>)
    ELSE ParseElements(s, 2, <<>>)

\* mutant of FindDeviceConfig: the first entry, whatever its identifier
FindFirstEntry(parsed) == IF Len(parsed) = 0 THEN None ELSE Some(parsed[1])

\* parsed.into_iter().find(|item| item.device_id.as_str() == DEVICE_ID)
FindDeviceConfig(parsed) ==
    LET hits == {i \in 1..Len(parsed) : parsed[i].device_id = DEVICE_ID}
    IN  IF hits = {} THEN None
        ELSE Some(parsed[CHOOSE i \in hits : \A j \in hits : i <= j])

Failed(msg) == [res |-> msg, cfg |-> None]

\* fetch_and_update_config from the result of socket.read on: the result of
\* the cycle and the entry handed to set_device_config
ParseResponse(read) ==
    IF read.kind = "err" THEN Failed("Read failed")
    ELSE IF ~read.utf8 THEN Failed("Invalid UTF-8")
    ELSE LET response == Received(read)
             json_start == Find(response, "[")
         IN  IF json_start = 0 THEN Failed("No JSON array in response")
             ELSE LET json_str == SubSeq(response, json_start, Len(response))
                      parsed == from_str(json_str)
                  IN  IF ~parsed.ok THEN Failed("JSON parse error")
                      ELSE LET device_config == FindDeviceConfig(parsed.v)
                           IN  IF device_config = None
                                 THEN Failed("Device config not found")
                                 ELSE [res |-> "Ok", cfg |-> device_config]

(***************************************************************************)
(* The configuration store (utils/config_store.rs).  The lock is taken and *)
(* dropped inside one action: neither function suspends while it holds it. *)
(***************************************************************************)
\* mutant of init_config_store: the reference is left as it was
InitSkipped(ref) == ref

\* init_config_store: DEVICE_CONFIG_REF = Some(reference)
init_config_store(ref) == "Some"

\* DEVICE_CONFIG_REF.expect("Config store not initialized") returns
Expect(ref) == ref = "Some"

\* the panic handler stops the device
Panic(msg) ==
    /\ panicMsg' = msg
    /\ UNCHANGED <<DEVICE_CONFIG_REF, initCalls>>

\* the state of the statics once main has called init_config_store
StoreReady ==
    /\ DEVICE_CONFIG_REF = "Some"
    /\ initCalls = 1
    /\ panicMsg = "none"

\* mutant of set_device_config: a slot that is written only while empty
SetOnce(slot, config) == IF slot = None THEN Some(config) ELSE slot

\* set_device_config: *guard = Some(config)
set_device_config(slot, config) == Some(config)

\* mutant of get_device_config: the caller is told the store is empty
GetNothing(slot) == None

\* get_device_config: guard.clone()
get_device_config(slot) == slot

\* mutant of StoreAfterCycle: a failed cycle clears the slot
ClearOnFailure(slot, outcome) ==
    IF outcome.res = "Ok" THEN Some(outcome.cfg[1]) ELSE None

\* the store after a cycle: set_device_config is reached only on Ok
StoreAfterCycle(slot, outcome) ==
    IF outcome.res = "Ok" THEN set_device_config(slot, outcome.cfg[1]) ELSE slot

Sat(n) == Min(n + 1, MaxCount)

\* the slot and the locals of the two tasks before either has run
FetchData ==
    /\ cfWaited = 0
    /\ store = None
    /\ cfResult = "none"
    /\ cfResp = NoRead
    /\ cfPre = None
    /\ cfLastSet = None
    /\ cfSets = 0
    /\ mainGot = None
    /\ led = "low"

\* the sockets embassy-net keeps in the pool for itself: the DHCP client of
\* Config::dhcpv4 and the resolver behind DnsSocket
STACK_OWN_SOCKETS == 2

\* StackResources<5>: the size of the stack's socket set
STACK_RESOURCES == 5

\* TcpSocket::new(*stack, ..): a socket is added to the stack's socket set
Open(held) == held + 1

\* mutant of Release: the socket stays in the set when the call returns
Leak(held) == held

\* the socket goes out of scope when the function returns, through `?`, a
\* return or its end: Drop removes it from the stack's socket set
Release(held) == held - 1

\* config_fetch_task in its first cycle, the control loop at its first pass
FetchInit ==
    /\ FetchData
    /\ cfSockets = Open(0)
    /\ cfPc = "dns"
    /\ mainPc = "poll"

\* a cycle that ends with an error before the response is read
CfFail(msg) ==
    /\ cfPc' = "sleep"
    /\ cfResult' = msg
    /\ cfSockets' = Release(cfSockets)
    /\ UNCHANGED <<store, cfResp, cfPre, cfLastSet, cfSets>>

\* dns_socket.query(...).await and addresses.get(0)
CfDns(answer) ==
    /\ cfPc = "dns"
    /\ CASE answer = "err" -> CfFail("DNS resolution failed")
         [] answer = "empty" -> CfFail("No IP addresses returned from DNS")
         [] OTHER -> /\ cfPc' = "connect"
                     /\ UNCHANGED <<store, cfResult, cfResp, cfPre, cfLastSet, cfSets, cfSockets>>
    /\ UNCHANGED <<mainPc, mainGot, led>>
    /\ UNCHANGED notFetch

\* socket.connect(...).await
CfConnect(ok) ==
    /\ cfPc = "connect"
    /\ IF ok THEN /\ cfPc' = "write"
                  /\ UNCHANGED <<store, cfResult, cfResp, cfPre, cfLastSet, cfSets, cfSockets>>
             ELSE CfFail("Connection failed")
    /\ UNCHANGED <<mainPc, mainGot, led>>
    /\ UNCHANGED notFetch

\* socket.write_all(request.as_bytes()).await
CfWrite(ok) ==
    /\ cfPc = "write"
    /\ IF ok THEN /\ cfPc' = "read"
                  /\ UNCHANGED <<store, cfResult, cfResp, cfPre, cfLastSet, cfSets, cfSockets>>
             ELSE CfFail("Write failed")
    /\ UNCHANGED <<mainPc, mainGot, led>>
    /\ UNCHANGED notFetch

\* socket.read(&mut buf).await and the rest of fetch_and_update_config
CfRead(read) ==
    /\ cfPc = "read"
    /\ LET outcome == ParseResponse(read)
       IN  IF outcome.res = "Ok" /\ ~Expect(DEVICE_CONFIG_REF)
             THEN /\ Panic("Config store not initialized")
                  /\ cfPc' = "panicked"
                  /\ UNCHANGED <<store, cfResult, cfLastSet, cfSets, cfSockets>>
             ELSE /\ store' = StoreAfterCycle(store, outcome)
                  /\ cfResult' = outcome.res
                  /\ cfLastSet' = IF outcome.res = "Ok" THEN outcome.cfg ELSE cfLastSet
                  /\ cfSets' = IF outcome.res = "Ok" THEN Sat(cfSets) ELSE cfSets
                  /\ cfSockets' = Release(cfSockets)
                  /\ cfPc' = "sleep"
                  /\ UNCHANGED cellVars
    /\ cfResp' = read
    /\ UNCHANGED <<cfPre, mainPc, mainGot, led>>
    /\ UNCHANGED aroundStore

\* mutant of NextFetchDelay: a failed cycle is followed by a longer wait
DelayByOutcome(result) == IF result = "Ok" THEN 60 ELSE 120

\* the seconds config_fetch_task waits after a cycle that ended in `result`:
\* the timer follows the match on the result and takes a literal
NextFetchDelay(result) == 60

\* Timer::after(Duration::from_secs(60)).await, then the next cycle starts
CfSleep ==
    /\ cfPc = "sleep"
    /\ cfPc' = "dns"
    /\ cfPre' = store
    /\ cfResult' = "none"
    /\ cfResp' = NoRead
    /\ cfWaited' = NextFetchDelay(cfResult)
    /\ cfSockets' = Open(cfSockets)
    /\ UNCHANGED <<store, cfLastSet, cfSets, mainPc, mainGot, led>>
    /\ UNCHANGED aroundTimer

\* mutant of ApplyLed: a setting that is not "on" switches the output off
ApplyLedOnOrOff(level, got) ==
    IF got = None THEN level
    ELSE IF got[1].config.LED = Some("on") THEN "high" ELSE "low"

\* the match on the LED setting in the control loop: config.config.LED
\* .as_deref() is Some("on"), Some("off"), Some(other) or None
ApplyLed(level, got) ==
    IF got = None THEN level
    ELSE CASE got[1].config.LED = Some("on") -> "high"
           [] got[1].config.LED = Some("off") -> "low"
           [] OTHER -> level

\* the body of the control loop up to its Timer::after(1 s), with the
\* reference to the store being `ref`
LoopBody(ref) ==
    IF Expect(ref)
      THEN /\ mainGot' = get_device_config(store)
           /\ led' = ApplyLed(led, mainGot')
           /\ mainPc' = "sleep"
           /\ panicMsg' = panicMsg
      ELSE /\ panicMsg' = "Config store not initialized"
           /\ mainPc' = "panicked"
           /\ UNCHANGED <<mainGot, led>>

\* one pass of the control loop up to its Timer::after(1 s)
MainPoll ==
    /\ mainPc = "poll"
    /\ LoopBody(DEVICE_CONFIG_REF)
    /\ UNCHANGED <<DEVICE_CONFIG_REF, initCalls>>
    /\ UNCHANGED <<store, cfPc, cfResult, cfResp, cfPre, cfLastSet, cfSets, cfSockets>>
    /\ UNCHANGED aroundStore

\* the control loop's one-second timer fires
MainWake ==
    /\ mainPc = "sleep"
    /\ mainPc' = "poll"
    /\ UNCHANGED <<store, cfPc, cfResult, cfResp, cfPre, cfLastSet, cfSets, cfSockets, mainGot, led>>
    /\ UNCHANGED notFetch

FetchNext ==
    \/ \E answer \in {"ok", "err", "empty"} : CfDns(answer)
    \/ \E ok \in BOOLEAN : CfConnect(ok)
    \/ \E ok \in BOOLEAN : CfWrite(ok)
    \/ \E read \in ConfigReads : CfRead(read)
    \/ CfSleep
    \/ MainPoll
    \/ MainWake

(***************************************************************************)
(* telemetry_task and send_telemetry (tasks/telemetry.rs).  The text of a  *)
(* response is a sequence of pieces, so that str::contains is a search for *)
(* a run of pieces.                                                        *)
(***************************************************************************)
TELEMETRY_SEND_EVERY == 30

MaxTelLen == 3           \* pieces in a telemetry response
MaxStreak == 4           \* the saturating count of consecutive failures stops here

TelPieces == {"HTTP/1.1 ", "HTTP/1.0 ", "200", "404", " OK"}
TelTexts == UNION {[1..n -> TelPieces] : n \in 0..MaxTelLen}
TelReads == {ReadErr, BadBytes} \cup {Bytes(t) : t \in TelTexts}

\* the JSON body of the POST: the format string holds "device_id":"1", and
\* the two readings are its only arguments
TelemetryBody == [device_id |-> "1", telemetry_data |-> {"temperature", "voltage", "status"}]
\* no body has been formatted
NoBody == [device_id |-> "", telemetry_data |-> {}]

\* a step send_telemetry has taken and how it ended: "ok", "err", or
\* "empty" for a DNS answer without an address
Step(name, outcome) == [step |-> name, outcome |-> outcome]

\* mutant of DnsFailed: an answer without an address is taken as resolved
DnsErrOnly(answer) == answer = "err"

\* the query returned Err(_), or addresses.get(0) is None
DnsFailed(answer) == answer # "ok"

\* str::contains
Contains(text, pattern) ==
    \E i \in 1..(Len(text) - Len(pattern) + 1) :
        SubSeq(text, i, i + Len(pattern) - 1) = pattern

\* core::str::from_utf8(&buf[..n]).unwrap_or("Invalid UTF-8")
ResponseText(read) == IF read.utf8 THEN Received(read) ELSE <<"Invalid UTF-8">>

\* response.contains("HTTP/1.1 200") || response.contains("HTTP/1.0 200")
IsAccepted(response) ==
    \/ Contains(response, <<"HTTP/1.1 ", "200">>)
    \/ Contains(response, <<"HTTP/1.0 ", "200">>)

\* the value send_telemetry returns once socket.read returned Ok(n): the
\* if/else on the response only logs, and the function ends in Ok(())
ResultAfterRead(response) == "Ok"

\* mutant of AfterSend: the task stops on a failed send
StopOnFailure(result) == IF result = "Ok" THEN "tick" ELSE "halted"

\* where telemetry_task goes when send_telemetry returned: both arms of the
\* match log, and the loop goes on to its one-second timer
AfterSend(result) == "tick"

\* the loop counter, kept exactly below two periods and by its residue above
\* (the wrap of the u32 after 2^32 iterations is outside the model)
Fold(n) == IF n >= 2 * TELEMETRY_SEND_EVERY THEN n - TELEMETRY_SEND_EVERY ELSE n

\* the interval main puts into the TelemetryTaskConfig it spawns the task with
MAIN_INTERVAL_SECONDS == 30

\* the intervals a TelemetryTaskConfig is built with
IntervalSeconds == {TELEMETRY_SEND_EVERY \div 2, TELEMETRY_SEND_EVERY, 2 * TELEMETRY_SEND_EVERY}

\* the locals of telemetry_task before it has run
TelLocals ==
    /\ telemetry_interval = 0
    /\ telResult = "none"
    /\ telResp = NoRead
    /\ telLog = "none"
    /\ telAttempts = 0
    /\ failStreak = 0
    /\ gap = 0
    /\ skipped = FALSE
    /\ lastGap = 0
    /\ telBody = NoBody
    /\ telSteps = <<>>
    /\ telSockets = 0
    /\ sinceRead = 0
    /\ sensed = "none"

\* the task as main spawns it
TelData ==
    /\ TelLocals
    /\ interval_seconds = MAIN_INTERVAL_SECONDS

TelInit ==
    /\ TelData
    /\ telPc = "check"

\* send_telemetry returned `result`: back in telemetry_task, the counter is
\* incremented and the one-second timer started
TelReturn(result) ==
    /\ telResult' = result
    /\ telPc' = AfterSend(result)
    /\ telemetry_interval' = Fold(telemetry_interval + 1)
    /\ failStreak' = IF result = "Ok" THEN 0 ELSE Min(failStreak + 1, MaxStreak)
    /\ gap' = 0
    /\ skipped' = FALSE
    /\ telSockets' = Release(telSockets)

\* mutant of SensorsOk: only the temperature read has to succeed
TemperatureOk(sensors) == sensors \in {"ok", "voltage"}

\* the arm (Ok(temperature), Ok(voltage)) of the match on the two reads;
\* `sensors` names the read that failed: "temperature", "voltage" or "both"
SensorsOk(sensors) == sensors = "ok"

\* the other arms, in their order: (Err(e), _), then (_, Err(e))
SensorLog(sensors) ==
    IF sensors \in {"temperature", "both"}
      THEN "Failed to read temperature"
      ELSE "Failed to read voltage"

\* top of the loop: the test of the counter and the two sensor reads
TelCheck(sensors) ==
    /\ telPc = "check"
    /\ IF telemetry_interval % TELEMETRY_SEND_EVERY = 0 /\ SensorsOk(sensors)
         THEN /\ telPc' = "dns"
              /\ telAttempts' = Min(telAttempts + 1, MaxCount)
              /\ lastGap' = gap
              /\ telSockets' = Open(telSockets)
              /\ UNCHANGED <<telemetry_interval, telResult, telResp, telLog, failStreak, gap, skipped>>
         ELSE /\ telPc' = "tick"
              /\ telemetry_interval' = Fold(telemetry_interval + 1)
              /\ skipped' = (skipped \/ telemetry_interval % TELEMETRY_SEND_EVERY = 0)
              /\ telLog' = IF telemetry_interval % TELEMETRY_SEND_EVERY = 0
                             THEN SensorLog(sensors)
                             ELSE telLog
              /\ UNCHANGED <<telResult, telResp, telAttempts, failStreak, gap, lastGap, telSockets>>
    /\ sinceRead' = IF telemetry_interval % TELEMETRY_SEND_EVERY = 0 THEN 0 ELSE sinceRead
    /\ sensed' = IF telemetry_interval % TELEMETRY_SEND_EVERY = 0 THEN sensors ELSE sensed
    /\ UNCHANGED <<telBody, telSteps>>
    /\ UNCHANGED notTel

\* dns_socket.query(...).await and addresses.get(0)
TelDns(answer) ==
    /\ telPc = "dns"
    /\ IF DnsFailed(answer)
         THEN TelReturn("DnsResolve")
         ELSE /\ telPc' = "connect"
              /\ UNCHANGED <<telemetry_interval, telResult, failStreak, gap, skipped, telSockets>>
    /\ telSteps' = Append(telSteps, Step("resolve", answer))
    /\ UNCHANGED <<telResp, telLog, telAttempts, lastGap, sinceRead, sensed, telBody>>
    /\ UNCHANGED notTel

\* socket.connect(...).await and, once connected, the formatting of the
\* body and of the request
TelConnect(ok) ==
    /\ telPc = "connect"
    /\ IF ok
         THEN /\ telPc' = "write"
              /\ telBody' = TelemetryBody
              /\ UNCHANGED <<telemetry_interval, telResult, failStreak, gap, skipped, telSockets>>
         ELSE /\ TelReturn("Connect")
              /\ UNCHANGED telBody
    /\ telSteps' = Append(telSteps, Step("connect", IF ok THEN "ok" ELSE "err"))
    /\ UNCHANGED <<telResp, telLog, telAttempts, lastGap, sinceRead, sensed>>
    /\ UNCHANGED notTel

\* socket.write_all(request.as_bytes()).await
TelWrite(ok) ==
    /\ telPc = "write"
    /\ IF ok
         THEN /\ telPc' = "read"
              /\ UNCHANGED <<telemetry_interval, telResult, failStreak, gap, skipped, telSockets>>
         ELSE TelReturn("Write")
    /\ telSteps' = Append(telSteps, Step("write", IF ok THEN "ok" ELSE "err"))
    /\ UNCHANGED <<telResp, telLog, telAttempts, lastGap, sinceRead, sensed, telBody>>
    /\ UNCHANGED notTel

\* socket.read(&mut buf).await, the check of the response, socket.close()
TelRead(read) ==
    /\ telPc = "read"
    /\ telResp' = read
    /\ IF read.kind = "err"
         THEN /\ TelReturn("Read")
              /\ telLog' = "Failed to read response"
              /\ telSteps' = Append(telSteps, Step("read", "err"))
         ELSE /\ telPc' = "closing"
              /\ telSteps' = telSteps \o <<Step("read", "ok"), Step("close", "ok")>>
              /\ telLog' = IF IsAccepted(ResponseText(read))
                             THEN "Telemetry accepted by server"
                             ELSE "Server returned non-200 status"
              /\ UNCHANGED <<telemetry_interval, telResult, failStreak, gap, skipped, telSockets>>
    /\ UNCHANGED <<telAttempts, lastGap, sinceRead, sensed, telBody>>
    /\ UNCHANGED notTel

\* Timer::after(Duration::from_millis(100)).await, then send_telemetry returns
TelClosed ==
    /\ telPc = "closing"
    /\ TelReturn(ResultAfterRead(ResponseText(telResp)))
    /\ telSteps' = Append(telSteps, Step("pause", "ok"))
    /\ UNCHANGED <<telResp, telLog, telAttempts, lastGap, sinceRead, sensed, telBody>>
    /\ UNCHANGED notTel

\* Timer::after(Duration::from_secs(1)).await at the end of the loop body
TelTick ==
    /\ telPc = "tick"
    /\ telPc' = "check"
    /\ gap' = Min(gap + 1, 3 * TELEMETRY_SEND_EVERY)
    /\ sinceRead' = Min(sinceRead + 1, 3 * TELEMETRY_SEND_EVERY)
    /\ sensed' = "none"
    /\ telResp' = NoRead
    /\ telLog' = "none"
    /\ telBody' = NoBody
    /\ telSteps' = <<>>
    /\ UNCHANGED <<telemetry_interval, telResult, telAttempts, failStreak, skipped, lastGap, telSockets>>
    /\ UNCHANGED notTel

TelNext ==
    \/ \E sensors \in {"ok", "temperature", "voltage", "both"} : TelCheck(sensors)
    \/ \E answer \in {"ok", "err", "empty"} : TelDns(answer)
    \/ \E ok \in BOOLEAN : TelConnect(ok)
    \/ \E ok \in BOOLEAN : TelWrite(ok)
    \/ \E read \in TelReads : TelRead(read)
    \/ TelClosed
    \/ TelTick

(***************************************************************************)
(* The network stack as its users see it: the two status predicates, which *)
(* the stack's runner task changes whenever the calling task is suspended. *)
(***************************************************************************)
NetInit ==
    /\ configUp \in BOOLEAN
    /\ linkUp \in BOOLEAN
    /\ everConfigUp = configUp
    /\ everLinkUp = linkUp

\* the runner changes what is_config_up() and is_link_up() return
NetEvent(config, link) ==
    /\ <<config, link>> # <<configUp, linkUp>>
    /\ configUp' = config
    /\ linkUp' = link
    /\ everConfigUp' = (everConfigUp \/ config)
    /\ everLinkUp' = (everLinkUp \/ link)
    /\ UNCHANGED notNet

(***************************************************************************)
(* NetworkStack::setup_and_wait (network/mod.rs).  The call is suspended   *)
(* only in its timers; an action is a timer that fires and the code that   *)
(* runs from there to the next timer or to the return.                     *)
(***************************************************************************)
DHCP_TIMEOUT == 30       \* let mut dhcp_timeout = 30
LINK_TIMEOUT == 10       \* let mut link_timeout = 10
STACK_TIMEOUT == 10      \* let mut stack_timeout = 10
DhcpPollMs == 1000       \* Duration::from_secs(1)
LinkPollMs == 500        \* Duration::from_millis(500)
StackPollMs == 1000      \* Duration::from_secs(1)
StabilizeMs == 2000      \* Duration::from_secs(2)

\* the test of each while loop: !stack.is_..._up() && timeout > 0
KeepWaiting(up, timeout) == ~up /\ timeout > 0

\* mutant of DhcpFailed and of LinkFailed: a phase that never fails
NeverFailed(up) == FALSE

\* if !stack.is_config_up() { return Err(()) } after the first loop
DhcpFailed(up) == ~up

\* if !stack.is_link_up() { return Err(()) }
LinkFailed(up) == ~up

\* if !stack.is_config_up() { return Err(()) } after the third loop
StackFailed(up) == ~up

\* the record of what the call saw: `what` is added when the predicate holds
Observed(trace, up, what) == IF up THEN Append(trace, what) ELSE trace

Suspended(pc, trace, polls) == [pc |-> pc, res |-> "none", trace |-> trace, polls |-> polls]
Returned(res, trace, polls) == [pc |-> "done", res |-> res, trace |-> trace, polls |-> polls]

\* mutant of StackUp: the third phase tests the link once more
LinkAgain(config, link) == link

\* what the third loop and the check after it test: stack.is_config_up()
StackUp(config, link) == config

\* from the test of the third loop to the next timer or the return
FromStack(timeout, trace, polls) ==
    IF KeepWaiting(StackUp(configUp, linkUp), timeout) THEN Suspended("stackWait", trace, polls)
    ELSE IF StackFailed(StackUp(configUp, linkUp)) THEN Returned("Err", trace, polls)
    ELSE Suspended("pause", Observed(trace, StackUp(configUp, linkUp), "stack_up"), polls)

\* from the test of the second loop on
FromLink(timeout, trace, polls) ==
    IF KeepWaiting(linkUp, timeout) THEN Suspended("linkWait", trace, polls + 1)
    ELSE IF LinkFailed(linkUp) THEN Returned("Err", trace, polls + 1)
    ELSE FromStack(stack_timeout, Observed(trace, linkUp, "link_up"), polls + 1)

\* from the test of the first loop on
FromDhcp(timeout, trace, polls) ==
    IF KeepWaiting(configUp, timeout) THEN Suspended("dhcpWait", trace, polls)
    ELSE IF DhcpFailed(configUp) THEN Returned("Err", trace, polls)
    ELSE FromLink(link_timeout, Observed(trace, configUp, "config_up"), polls)

SetupInit ==
    /\ nwPc = "start"
    /\ dhcp_timeout = DHCP_TIMEOUT
    /\ link_timeout = LINK_TIMEOUT
    /\ stack_timeout = STACK_TIMEOUT
    /\ nwResult = "none"
    /\ nwTrace = <<>>
    /\ nwLinkPolls = 0
    /\ nwWaited = [dhcp |-> 0, link |-> 0, stack |-> 0, pause |-> 0]

\* the call went on to `out`
SetupGoes(out) ==
    /\ nwPc' = out.pc
    /\ nwResult' = out.res
    /\ nwTrace' = out.trace
    /\ nwLinkPolls' = out.polls

\* the call of setup_and_wait, up to its first timer
NwCall ==
    /\ nwPc = "start"
    /\ SetupGoes(FromDhcp(dhcp_timeout, nwTrace, nwLinkPolls))
    /\ UNCHANGED <<dhcp_timeout, link_timeout, stack_timeout, nwWaited>>
    /\ UNCHANGED <<netVars, notSetup>>

\* the timer of the first loop fires: dhcp_timeout -= 1 and the test again
NwDhcpWake ==
    /\ nwPc = "dhcpWait"
    /\ dhcp_timeout' = dhcp_timeout - 1
    /\ nwWaited' = [nwWaited EXCEPT !.dhcp = @ + DhcpPollMs]
    /\ SetupGoes(FromDhcp(dhcp_timeout', nwTrace, nwLinkPolls))
    /\ UNCHANGED <<link_timeout, stack_timeout>>
    /\ UNCHANGED <<netVars, notSetup>>

\* the timer of the second loop fires: link_timeout -= 1 and the test again
NwLinkWake ==
    /\ nwPc = "linkWait"
    /\ link_timeout' = link_timeout - 1
    /\ nwWaited' = [nwWaited EXCEPT !.link = @ + LinkPollMs]
    /\ SetupGoes(FromLink(link_timeout', nwTrace, nwLinkPolls))
    /\ UNCHANGED <<dhcp_timeout, stack_timeout>>
    /\ UNCHANGED <<netVars, notSetup>>

\* the timer of the third loop fires: stack_timeout -= 1 and the test again
NwStackWake ==
    /\ nwPc = "stackWait"
    /\ stack_timeout' = stack_timeout - 1
    /\ nwWaited' = [nwWaited EXCEPT !.stack = @ + StackPollMs]
    /\ SetupGoes(FromStack(stack_timeout', nwTrace, nwLinkPolls))
    /\ UNCHANGED <<dhcp_timeout, link_timeout>>
    /\ UNCHANGED <<netVars, notSetup>>

\* the stabilization timer fires and the call returns Ok(())
NwPauseDone ==
    /\ nwPc = "pause"
    /\ nwWaited' = [nwWaited EXCEPT !.pause = @ + StabilizeMs]
    /\ SetupGoes(Returned("Ok", Append(nwTrace, "pause"), nwLinkPolls))
    /\ UNCHANGED <<dhcp_timeout, link_timeout, stack_timeout>>
    /\ UNCHANGED <<netVars, notSetup>>

SetupNext ==
    \/ NwCall
    \/ NwDhcpWake
    \/ NwLinkWake
    \/ NwStackWake
    \/ NwPauseDone
    \/ \E config \in BOOLEAN, link \in BOOLEAN : NetEvent(config, link)

(***************************************************************************)
(* The boot sequence of main (main.rs) from its first control.join to the  *)
(* control loop.  bootPc names the await in which main is suspended; the   *)
(* calls of post_to_debug_server, whose results main drops, and the blink  *)
(* patterns are awaits at which the stack's status may change.             *)
(***************************************************************************)
MAX_WIFI_RETRIES == 10
MAIN_DHCP_TIMEOUT == 30  \* let mut dhcp_timeout = 30 in main

\* mutant of BootRetriesExhausted: the comparison is off by one
BootRetriesExceeded(count) == count > MAX_WIFI_RETRIES

\* wifi_retry_count >= MAX_WIFI_RETRIES
BootRetriesExhausted(count) == count >= MAX_WIFI_RETRIES

\* mutant of JoinExhaustedPc: boot goes on without a join
CarryOn == "joined"

\* where main goes when the joins are exhausted: loop { led.error_blink().await }
JoinExhaustedPc == "fault"

\* while !stack.is_config_up() && dhcp_timeout > 0, then the check after it
DhcpTest(timeout) ==
    IF ~configUp /\ timeout > 0 THEN "dhcpWait"
    ELSE IF ~configUp THEN "fault"
    ELSE "dhcpUp"

\* main moves on; the LED is switched on when the error blink loop starts
BootGoes(pc) ==
    /\ bootPc' = pc
    /\ led' = IF pc = "fault" THEN "high" ELSE led
    /\ UNCHANGED <<store, cfPc, cfResult, cfResp, cfPre, cfLastSet, cfSets, cfSockets, mainPc, mainGot>>
    /\ UNCHANGED <<notBoot, telVars, cellVars>>

BootInit ==
    /\ bootPc = "join"
    /\ wifi_retry_count = 0
    /\ main_dhcp_timeout = MAIN_DHCP_TIMEOUT
    /\ bootJoins = 0
    /\ joined = FALSE
    /\ bootReady = FALSE
    /\ faultBlinks = 0

\* control.join(...).await returns and the match on its result
BootJoin(ok) ==
    /\ bootPc = "join"
    /\ bootJoins' = bootJoins + 1
    /\ IF ok
         THEN /\ joined' = TRUE
              /\ BootGoes("joined")
              /\ UNCHANGED wifi_retry_count
         ELSE /\ wifi_retry_count' = (wifi_retry_count + 1) % U8
              /\ BootGoes(IF BootRetriesExhausted(wifi_retry_count')
                            THEN JoinExhaustedPc ELSE "joinDelay")
              /\ UNCHANGED joined
    /\ UNCHANGED <<main_dhcp_timeout, bootReady, faultBlinks>>

\* Timer::after(Duration::from_secs(5)).await
BootJoinDelay ==
    /\ bootPc = "joinDelay"
    /\ BootGoes("join")
    /\ UNCHANGED <<wifi_retry_count, main_dhcp_timeout, bootJoins, joined, bootReady, faultBlinks>>

\* led.success_blink() and the first post are over: the first test of the
\* DHCP loop
BootJoined ==
    /\ bootPc = "joined"
    /\ BootGoes(DhcpTest(main_dhcp_timeout))
    /\ UNCHANGED <<wifi_retry_count, main_dhcp_timeout, bootJoins, joined, bootReady, faultBlinks>>

\* the one-second timer of the DHCP loop fires: dhcp_timeout -= 1 and the test
\* again (the local is dead once the loop is left, and is set back)
BootDhcpWake ==
    /\ bootPc = "dhcpWait"
    /\ LET pc == DhcpTest(main_dhcp_timeout - 1)
       IN  /\ BootGoes(pc)
           /\ main_dhcp_timeout' = IF pc = "dhcpWait" THEN main_dhcp_timeout - 1
                                                     ELSE MAIN_DHCP_TIMEOUT
    /\ UNCHANGED <<wifi_retry_count, bootJoins, joined, bootReady, faultBlinks>>

\* the posts after the DHCP loop are over: the first test of the link loop
BootDhcpReported ==
    /\ bootPc = "dhcpUp"
    /\ BootGoes(IF ~linkUp THEN "linkWait" ELSE "linkUp")
    /\ UNCHANGED <<wifi_retry_count, main_dhcp_timeout, bootJoins, joined, bootReady, faultBlinks>>

\* the 500 ms timer of the link loop fires: while !stack.is_link_up()
BootLinkWake ==
    /\ bootPc = "linkWait"
    /\ BootGoes(IF ~linkUp THEN "linkWait" ELSE "linkUp")
    /\ UNCHANGED <<wifi_retry_count, main_dhcp_timeout, bootJoins, joined, bootReady, faultBlinks>>

\* the posts after the link loop are over: stack.wait_config_up().await, which
\* returns at once when the configuration is up
BootLinkReported ==
    /\ bootPc = "linkUp"
    /\ BootGoes(IF configUp THEN "stackUp" ELSE "stackWait")
    /\ bootReady' = configUp
    /\ UNCHANGED <<wifi_retry_count, main_dhcp_timeout, bootJoins, joined, faultBlinks>>

\* stack.wait_config_up() is woken with the configuration up
BootStackUp ==
    /\ bootPc = "stackWait"
    /\ configUp
    /\ BootGoes("stackUp")
    /\ bootReady' = TRUE
    /\ UNCHANGED <<wifi_retry_count, main_dhcp_timeout, bootJoins, joined, faultBlinks>>

\* the last post is over: init_config_store(), the two spawns and the first
\* pass of the control loop, up to its timer
BootStart ==
    /\ bootPc = "stackUp"
    /\ bootPc' = "loop"
    /\ DEVICE_CONFIG_REF' = init_config_store(DEVICE_CONFIG_REF)
    /\ initCalls' = initCalls + 1
    /\ cfPc' = "dns"
    /\ cfSockets' = Open(cfSockets)
    /\ telPc' = "check"
    /\ LoopBody(DEVICE_CONFIG_REF')
    /\ UNCHANGED <<store, cfResult, cfResp, cfPre, cfLastSet, cfSets>>
    /\ UNCHANGED <<telemetry_interval, telResult, telResp, telLog, telAttempts, failStreak, gap, skipped, lastGap,
                   sinceRead, sensed>>
    /\ UNCHANGED <<telBody, telSteps>>
    /\ UNCHANGED <<wifi_retry_count, main_dhcp_timeout, bootJoins, joined, bootReady, faultBlinks>>
    /\ UNCHANGED notBoot

\* a 100 ms timer of led.error_blink() fires in the error loop
BootFaultBlink ==
    /\ bootPc = "fault"
    /\ bootPc' = "fault"
    /\ led' = IF led = "high" THEN "low" ELSE "high"
    /\ faultBlinks' = Min(faultBlinks + 1, MaxCount)
    /\ UNCHANGED <<store, cfPc, cfResult, cfResp, cfPre, cfLastSet, cfSets, cfSockets, mainPc, mainGot>>
    /\ UNCHANGED <<wifi_retry_count, main_dhcp_timeout, bootJoins, joined, bootReady>>
    /\ UNCHANGED <<notBoot, telVars, cellVars>>

BootNext ==
    \/ \E ok \in BOOLEAN : BootJoin(ok)
    \/ BootJoinDelay
    \/ BootJoined
    \/ BootDhcpWake
    \/ BootDhcpReported
    \/ BootLinkWake
    \/ BootLinkReported
    \/ BootStackUp
    \/ BootStart
    \/ BootFaultBlink

\* the responses the two agents are given in SpecStartup
StartupConfigReads ==
    {ReadErr,
     Bytes(<<LBracket, Obj(Item(DEVICE_ID, "on")), RBracket>>),
     Bytes(<<Text, LBracket, Obj(Item(DEVICE_ID, "off")), RBracket>>)}
StartupTelReads == {ReadErr, Bytes(<<"HTTP/1.1 ", "200", " OK">>), Bytes(<<"HTTP/1.1 ", "404">>)}

\* boot, the stack's status, the fetch agent and the control loop, and the
\* telemetry agent up to the timer that ends its first pass
StartupNext ==
    \/ \E ok \in BOOLEAN : BootJoin(ok)
    \/ BootJoinDelay
    \/ BootJoined
    \/ BootDhcpWake
    \/ BootDhcpReported
    \/ BootLinkWake
    \/ BootLinkReported
    \/ BootStackUp
    \/ BootStart
    \/ BootFaultBlink
    \/ \E config \in BOOLEAN, link \in BOOLEAN : NetEvent(config, link)
    \/ \E answer \in {"ok", "err", "empty"} : CfDns(answer)
    \/ \E ok \in BOOLEAN : CfConnect(ok)
    \/ \E ok \in BOOLEAN : CfWrite(ok)
    \/ \E read \in StartupConfigReads : CfRead(read)
    \/ CfSleep
    \/ MainPoll
    \/ MainWake
    \/ \E sensors \in {"ok", "temperature", "voltage", "both"} : TelCheck(sensors)
    \/ \E answer \in {"ok", "err", "empty"} : TelDns(answer)
    \/ \E ok \in BOOLEAN : TelConnect(ok)
    \/ \E ok \in BOOLEAN : TelWrite(ok)
    \/ \E read \in StartupTelReads : TelRead(read)
    \/ TelClosed

(***************************************************************************)
(* The store under the executor, step by step (utils/config_store.rs, the  *)
(* control loop of main.rs, the end of fetch_and_update_config).  The      *)
(* executor polls one task at a time, and a polled task runs until one of  *)
(* its awaits is pending: `running` is that task, "none" between polls.    *)
(* The slot is written and cloned one field after the other.               *)
(***************************************************************************)
Tasks == {"fetch", "main"}
OwnItems == {it \in Items : it.device_id = DEVICE_ID}

\* Mutex::lock is ready when the mutex is not locked
CanLock(state) == ~state

\* mutant of DropGuard: the guard is forgotten and the mutex stays locked
KeepGuard(state) == state

\* drop(guard): the mutex is unlocked
DropGuard(state) == FALSE

\* *guard = Some(config), first half: the tag and the device_id
WriteId(slot, config) ==
    Some([device_id |-> config.device_id,
          config |-> IF slot = None THEN NoItem.config ELSE slot[1].config])

\* mutant of WriteConfig: the second half of the value is not written
KeepConfig(slot, config) == slot

\* *guard = Some(config), second half: the config
WriteConfig(slot, config) == Some([slot[1] EXCEPT !.config = config.config])

\* guard.clone(), first half: the tag and the device_id
CloneId(slot) == IF slot = None THEN None ELSE Some(Item(slot[1].device_id, ""))

\* mutant of CloneConfig: the clone is lost and the caller gets None
CloneLost(slot, clone) == None

\* guard.clone(), second half: the config
CloneConfig(slot, clone) ==
    IF slot = None \/ clone = None THEN clone
    ELSE Some([clone[1] EXCEPT !.config = slot[1].config])

LockInit ==
    /\ running = "none"
    /\ locked = FALSE
    /\ holders = {}
    /\ stPc = [t \in Tasks |-> IF t = "fetch" THEN "fetching" ELSE "timer"]
    /\ stArg = NoItem
    /\ stClone = None
    /\ setArgs = {}

\* the network part of fetch_and_update_config is over: an error ends the
\* cycle in the 60 s timer, an entry of this device goes to set_device_config
StFetched(outcome) ==
    /\ running = "none"
    /\ stPc["fetch"] = "fetching"
    /\ IF outcome = None
         THEN /\ stPc' = [stPc EXCEPT !["fetch"] = "sleep"]
              /\ cfSockets' = Release(cfSockets)
              /\ UNCHANGED <<running, stArg>>
         ELSE /\ stPc' = [stPc EXCEPT !["fetch"] = "lock"]
              /\ running' = "fetch"
              /\ stArg' = outcome[1]
              /\ UNCHANGED cfSockets
    /\ UNCHANGED <<locked, holders, stClone, setArgs>>
    /\ UNCHANGED <<fetchVars, notLock>>

\* the 60 s timer of config_fetch_task fires and the next cycle starts
StSleepDone ==
    /\ running = "none"
    /\ stPc["fetch"] = "sleep"
    /\ stPc' = [stPc EXCEPT !["fetch"] = "fetching"]
    /\ cfSockets' = Open(cfSockets)
    /\ UNCHANGED <<running, locked, holders, stArg, stClone, setArgs>>
    /\ UNCHANGED <<fetchVars, notLock>>

\* the 1 s timer of the control loop fires: get_device_config is called
StTimer ==
    /\ running = "none"
    /\ stPc["main"] = "timer"
    /\ stPc' = [stPc EXCEPT !["main"] = "lock"]
    /\ running' = "main"
    /\ UNCHANGED <<locked, holders, stArg, stClone, setArgs>>
    /\ UNCHANGED <<fetchVars, notLock>>
    /\ UNCHANGED cfSockets

\* mutex.lock().await is polled, when it is called or when an unlock has
\* woken the task that waits in it: the guard, or the task is suspended
StLock(task) ==
    /\ \/ running = task /\ stPc[task] = "lock"
       \/ running = "none" /\ stPc[task] = "lockWait" /\ ~locked
    /\ IF CanLock(locked)
         THEN /\ locked' = TRUE
              /\ holders' = holders \cup {task}
              /\ stPc' = [stPc EXCEPT ![task] = "first"]
              /\ running' = task
         ELSE /\ stPc' = [stPc EXCEPT ![task] = "lockWait"]
              /\ running' = "none"
              /\ UNCHANGED <<locked, holders>>
    /\ UNCHANGED <<stArg, stClone, setArgs>>
    /\ UNCHANGED <<fetchVars, notLock>>
    /\ UNCHANGED cfSockets

\* set_device_config writes the first half of the value
StWriteId ==
    /\ running = "fetch"
    /\ stPc["fetch"] = "first"
    /\ store' = WriteId(store, stArg)
    /\ stPc' = [stPc EXCEPT !["fetch"] = "second"]
    /\ UNCHANGED <<running, locked, holders, stArg, stClone, setArgs>>
    /\ UNCHANGED <<cfPc, cfResult, cfResp, cfPre, cfLastSet, cfSets, mainPc, mainGot, led>>
    /\ UNCHANGED notLock
    /\ UNCHANGED cfSockets

\* set_device_config writes the second half of the value
StWriteConfig ==
    /\ running = "fetch"
    /\ stPc["fetch"] = "second"
    /\ store' = WriteConfig(store, stArg)
    /\ stPc' = [stPc EXCEPT !["fetch"] = "drop"]
    /\ UNCHANGED <<running, locked, holders, stArg, stClone, setArgs>>
    /\ UNCHANGED <<cfPc, cfResult, cfResp, cfPre, cfLastSet, cfSets, mainPc, mainGot, led>>
    /\ UNCHANGED notLock
    /\ UNCHANGED cfSockets

\* the guard of set_device_config is dropped, the call and the cycle return,
\* and the task is suspended in its 60 s timer
StSetReturns ==
    /\ running = "fetch"
    /\ stPc["fetch"] = "drop"
    /\ locked' = DropGuard(locked)
    /\ holders' = holders \ {"fetch"}
    /\ setArgs' = setArgs \cup {stArg}
    /\ cfLastSet' = Some(stArg)
    /\ cfSets' = Sat(cfSets)
    /\ cfSockets' = Release(cfSockets)
    /\ stPc' = [stPc EXCEPT !["fetch"] = "sleep"]
    /\ running' = "none"
    /\ UNCHANGED <<stArg, stClone>>
    /\ UNCHANGED <<store, cfPc, cfResult, cfResp, cfPre, mainPc, mainGot, led>>
    /\ UNCHANGED notLock

\* get_device_config clones the first half of the value
StCloneId ==
    /\ running = "main"
    /\ stPc["main"] = "first"
    /\ stClone' = CloneId(store)
    /\ stPc' = [stPc EXCEPT !["main"] = "second"]
    /\ UNCHANGED <<running, locked, holders, stArg, setArgs>>
    /\ UNCHANGED <<fetchVars, notLock>>
    /\ UNCHANGED cfSockets

\* get_device_config clones the second half of the value
StCloneConfig ==
    /\ running = "main"
    /\ stPc["main"] = "second"
    /\ stClone' = CloneConfig(store, stClone)
    /\ stPc' = [stPc EXCEPT !["main"] = "drop"]
    /\ UNCHANGED <<running, locked, holders, stArg, setArgs>>
    /\ UNCHANGED <<fetchVars, notLock>>
    /\ UNCHANGED cfSockets

\* the guard of get_device_config is dropped and the clone returned; the
\* control loop applies it and is suspended in its 1 s timer
StGetReturns ==
    /\ running = "main"
    /\ stPc["main"] = "drop"
    /\ locked' = DropGuard(locked)
    /\ holders' = holders \ {"main"}
    /\ mainGot' = stClone
    /\ led' = ApplyLed(led, mainGot')
    /\ stClone' = None
    /\ stPc' = [stPc EXCEPT !["main"] = "timer"]
    /\ running' = "none"
    /\ UNCHANGED <<stArg, setArgs>>
    /\ UNCHANGED <<store, cfPc, cfResult, cfResp, cfPre, cfLastSet, cfSets, mainPc>>
    /\ UNCHANGED notLock
    /\ UNCHANGED cfSockets

StoreNext ==
    \/ \E outcome \in {None} \cup {Some(it) : it \in OwnItems} : StFetched(outcome)
    \/ StSleepDone
    \/ StTimer
    \/ \E task \in Tasks : StLock(task)
    \/ StWriteId
    \/ StWriteConfig
    \/ StSetReturns
    \/ StCloneId
    \/ StCloneConfig
    \/ StGetReturns

(***************************************************************************)
(* The cloud services (src/Cloud).  A string is a sequence of pieces, a    *)
(* piece being a space or a run of other characters, so that str::trim     *)
(* has something to remove; a HashMap<String, String> is a function from   *)
(* a set of keys.                                                          *)
(***************************************************************************)
MaxClock == 2            \* the service's clock ranges over 0..MaxClock
MaxDocs == 2             \* documents in the configuration container
MaxTmDocs == 2           \* documents in the telemetry container

CloudIds == {<<>>, <<" ">>, <<"a">>, <<" ", "b">>}
CloudValues == {<<>>, <<" ">>, <<"on">>}
CloudKeys == {"LED", "rate"}
CloudMaps == UNION {[ks -> CloudValues] : ks \in SUBSET CloudKeys}
Timestamps == {-1, 0}

\* str::trim
RECURSIVE trim_start(_)
trim_start(s) == IF s # <<>> /\ Head(s) = " " THEN trim_start(Tail(s)) ELSE s
RECURSIVE trim_end(_)
trim_end(s) ==
    IF s # <<>> /\ s[Len(s)] = " " THEN trim_end(SubSeq(s, 1, Len(s) - 1)) ELSE s
trim(s) == trim_end(trim_start(s))
\* str::is_empty and HashMap::is_empty
is_empty(s) == Len(s) = 0
map_is_empty(m) == DOMAIN m = {}

Ok(value) == [ok |-> TRUE, value |-> value]
Err(error) == [ok |-> FALSE, error |-> error]

\* mutant of ConfigParse: the map is checked before the device id
ConfigParseMapFirst(device_id, config) ==
    IF map_is_empty(config) THEN Err("InvalidConfig")
    ELSE IF \E key \in DOMAIN config : is_empty(trim(config[key])) THEN Err("InvalidConfig")
    ELSE IF is_empty(trim(device_id)) THEN Err("InvalidDeviceId")
    ELSE Ok([device_id |-> device_id, config |-> config])

\* Config::parse (device-config/src/domain/config.rs)
ConfigParse(device_id, config) ==
    IF is_empty(trim(device_id)) THEN Err("InvalidDeviceId")
    ELSE IF map_is_empty(config) THEN Err("InvalidConfig")
    ELSE IF \E key \in DOMAIN config : is_empty(trim(config[key])) THEN Err("InvalidConfig")
    ELSE Ok([device_id |-> device_id, config |-> config])

\* From<ConfigError> for rocket::http::Status
ConfigStatus(error) ==
    CASE error \in {"InvalidDeviceId", "InvalidConfig"} -> 400
      [] error = "DatabaseError" -> 500

\* the id insert_config gives a document: "<device_id>-<timestamp>"
DocId(doc) == <<doc.device_id, doc.timestamp>>

\* CosmosDbTelemetryStore::insert_config: create_item fails when the
\* database cannot be reached (db = "down") and when the partition holds a
\* document with the same id
insert_config(docs, document, now, db) ==
    LET doc == [device_id |-> document.device_id, config |-> document.config,
                timestamp |-> now]
    IN  IF db = "down" \/ (\E d \in docs : DocId(d) = DocId(doc))
          THEN Err("DatabaseError")
          ELSE Ok(docs \cup {doc})

\* the document as query_items::<Config> deserializes it
AsConfig(doc) == [device_id |-> doc.device_id, config |-> doc.config]

\* mutant of read_config: the order of the query is ascending
read_config_oldest(docs, device_id, db) ==
    LET mine == {d \in docs : d.device_id = device_id}
    IN  IF db = "down" THEN Err("DatabaseError")
        ELSE IF mine = {} THEN Ok(<<>>)
        ELSE Ok(<<AsConfig(CHOOSE d \in mine : \A e \in mine : d.timestamp <= e.timestamp)>>)

\* CosmosDbTelemetryStore::read_config: SELECT TOP 1 * FROM c WHERE
\* c.device_id = '<device_id>' ORDER BY c.timestamp DESC
read_config(docs, device_id, db) ==
    LET mine == {d \in docs : d.device_id = device_id}
    IN  IF db = "down" THEN Err("DatabaseError")
        ELSE IF mine = {} THEN Ok(<<>>)
        ELSE Ok(<<AsConfig(CHOOSE d \in mine : \A e \in mine : e.timestamp <= d.timestamp)>>)

NoRequest == [kind |-> "none"]
NoResponse == [status |-> 0, body |-> <<>>, error |-> "none"]
Response(status, body, error) == [status |-> status, body |-> body, error |-> error]

ConfigSvcInit ==
    /\ cfgDocs = {}
    /\ cfgNow = 0
    /\ cfgReq = NoRequest
    /\ cfgResp = NoResponse
    /\ cfgLatest = [id \in CloudIds |-> None]

\* POST /device-config/update: update_config_route and update_config
UpdateConfig(device_id, config, db) ==
    /\ Cardinality(cfgDocs) < MaxDocs
    /\ cfgReq' = [kind |-> "update", device_id |-> device_id, config |-> config]
    /\ LET document == ConfigParse(device_id, config)
       IN  IF ~document.ok
             THEN /\ cfgResp' = Response(ConfigStatus(document.error), <<>>, document.error)
                  /\ UNCHANGED <<cfgDocs, cfgLatest>>
             ELSE LET inserted == insert_config(cfgDocs, document.value, cfgNow, db)
                  IN  IF ~inserted.ok
                        THEN /\ cfgResp' = Response(ConfigStatus(inserted.error), <<>>,
                                                    inserted.error)
                             /\ UNCHANGED <<cfgDocs, cfgLatest>>
                        ELSE /\ cfgResp' = Response(200, <<"Config ingested">>, "none")
                             /\ cfgDocs' = inserted.value
                             /\ cfgLatest' = [cfgLatest EXCEPT ![device_id] = Some(config)]
    /\ UNCHANGED cfgNow
    /\ UNCHANGED notConfigSvc

\* GET /device-config/get/<device_id>: get_config_route and get_config.
\* The route matches only a path whose last segment is not empty.
GetConfig(device_id, db) ==
    /\ device_id # <<>>
    /\ cfgReq' = [kind |-> "get", device_id |-> device_id, config |-> <<>>]
    /\ LET config == read_config(cfgDocs, device_id, db)
       IN  cfgResp' = IF config.ok
                        THEN Response(200, config.value, "none")
                        ELSE Response(ConfigStatus(config.error), <<>>, config.error)
    /\ UNCHANGED <<cfgDocs, cfgNow, cfgLatest>>
    /\ UNCHANGED notConfigSvc

\* time passes between two requests
ClockTick ==
    /\ cfgNow < MaxClock
    /\ cfgNow' = cfgNow + 1
    /\ UNCHANGED <<cfgDocs, cfgReq, cfgResp, cfgLatest>>
    /\ UNCHANGED notConfigSvc

ConfigSvcNext ==
    \/ \E device_id \in CloudIds, config \in CloudMaps, db \in {"ok", "down"} :
          UpdateConfig(device_id, config, db)
    \/ \E device_id \in CloudIds, db \in {"ok", "down"} : GetConfig(device_id, db)
    \/ ClockTick

\* mutant of TelemetryParse: the timestamp is checked before the device id
TelemetryParseTimeFirst(device_id, telemetry_data, timestamp) ==
    IF timestamp < 0 THEN Err("InvalidTimestamp")
    ELSE IF is_empty(trim(device_id)) THEN Err("InvalidDeviceId")
    ELSE IF map_is_empty(telemetry_data) THEN Err("EmptyTelemetryData")
    ELSE IF \E key \in DOMAIN telemetry_data : is_empty(trim(telemetry_data[key]))
      THEN Err("InvalidTelemetryValue")
    ELSE Ok([id |-> <<device_id, timestamp>>, device_id |-> device_id,
             telemetry_data |-> telemetry_data, timestamp |-> timestamp])

\* Telemetry::parse (device-comms/src/domain/telemetry.rs)
TelemetryParse(device_id, telemetry_data, timestamp) ==
    IF is_empty(trim(device_id)) THEN Err("InvalidDeviceId")
    ELSE IF timestamp < 0 THEN Err("InvalidTimestamp")
    ELSE IF map_is_empty(telemetry_data) THEN Err("EmptyTelemetryData")
    ELSE IF \E key \in DOMAIN telemetry_data : is_empty(trim(telemetry_data[key]))
      THEN Err("InvalidTelemetryValue")
    ELSE Ok([id |-> <<device_id, timestamp>>, device_id |-> device_id,
             telemetry_data |-> telemetry_data, timestamp |-> timestamp])

\* From<ApiError> for rocket::http::Status
ApiStatus(error) ==
    CASE error \in {"InvalidDeviceId", "InvalidTimestamp", "EmptyTelemetryData",
                    "InvalidTelemetryValue"} -> 400
      [] error = "DeviceNotFound" -> 404
      [] error = "DatabaseError" -> 500

\* CosmosDbTelemetryStore::insert_telemetry: create_item, which fails when
\* the database cannot be reached or refuses the document
insert_telemetry(docs, document, db) ==
    IF db = "down" THEN Err("DatabaseError") ELSE Ok(Append(docs, document))

CommsSvcInit ==
    /\ tmDocs = <<>>
    /\ tmReq = NoRequest
    /\ tmResp = NoResponse

\* POST /iot/data/ingest: ingest and insert_telemetry of the route
Ingest(device_id, telemetry_data, timestamp, db) ==
    /\ Len(tmDocs) < MaxTmDocs
    /\ tmReq' = [kind |-> "ingest", device_id |-> device_id,
                 telemetry_data |-> telemetry_data, timestamp |-> timestamp]
    /\ LET document == TelemetryParse(device_id, telemetry_data, timestamp)
       IN  IF ~document.ok
             THEN /\ tmResp' = Response(ApiStatus(document.error), <<>>, document.error)
                  /\ UNCHANGED tmDocs
             ELSE LET inserted == insert_telemetry(tmDocs, document.value, db)
                  IN  IF ~inserted.ok
                        THEN /\ tmResp' = Response(ApiStatus(inserted.error), <<>>,
                                                   inserted.error)
                             /\ UNCHANGED tmDocs
                        ELSE /\ tmResp' = Response(200, <<"Telemetry ingested">>, "none")
                             /\ tmDocs' = inserted.value
    /\ UNCHANGED notCommsSvc

CommsSvcNext ==
    \E device_id \in CloudIds, telemetry_data \in CloudMaps, timestamp \in Timestamps,
       db \in {"ok", "down"} :
          Ingest(device_id, telemetry_data, timestamp, db)

(***************************************************************************)
(* Specifications.  A component that a specification leaves out stays in   *)
(* its initial state.                                                      *)
(***************************************************************************)
WifiIdle ==
    /\ wfPc = "call"
    /\ wfCfg = [network |-> "ssid", password |-> "secret", max_retries |-> 1, retry_delay_secs |-> 1]
    /\ retry_count = 0
    /\ wfResult = "none"
    /\ wfAttempts = 0
    /\ wfFailures = 0
    /\ wfWaited = 0
    /\ wfDelays = 0

NetIdle ==
    /\ configUp = TRUE
    /\ linkUp = TRUE
    /\ everConfigUp = TRUE
    /\ everLinkUp = TRUE

\* main in its control loop, the store initialized and the agents spawned
BootDone ==
    /\ bootPc = "loop"
    /\ wifi_retry_count = 0
    /\ main_dhcp_timeout = MAIN_DHCP_TIMEOUT
    /\ bootJoins = 1
    /\ joined = TRUE
    /\ bootReady = TRUE
    /\ faultBlinks = 0

\* the components added to the three above, left out
CloudIdle == ConfigSvcInit /\ CommsSvcInit

RestIdle == NetIdle /\ SetupInit /\ StoreReady /\ BootDone /\ LockInit /\ CloudIdle

InitWifi == WifiInit /\ FetchInit /\ TelInit /\ RestIdle
InitFetch == FetchInit /\ WifiIdle /\ TelInit /\ RestIdle
InitTelemetry == TelInit /\ WifiIdle /\ FetchInit /\ RestIdle
InitSetup ==
    /\ SetupInit /\ NetInit
    /\ WifiIdle /\ FetchInit /\ TelInit /\ StoreReady /\ BootDone /\ LockInit
    /\ CloudIdle

\* both tasks spawned and suspended: the fetch agent in its first cycle, the
\* control loop in its timer
InitStore ==
    /\ LockInit
    /\ FetchInit /\ StoreReady /\ BootDone
    /\ WifiIdle /\ TelInit /\ NetIdle /\ SetupInit
    /\ CloudIdle

\* main suspended in its first control.join: nothing spawned, the statics of
\* the store as the loader left them
InitStartup ==
    /\ BootInit
    /\ NetInit
    /\ FetchData /\ cfPc = "unspawned" /\ mainPc = "boot" /\ cfSockets = 0
    /\ TelData /\ telPc = "unspawned"
    /\ DEVICE_CONFIG_REF = "None" /\ initCalls = 0 /\ panicMsg = "none"
    /\ WifiIdle
    /\ SetupInit
    /\ LockInit
    /\ CloudIdle

SpecWifi == InitWifi /\ [][WifiNext]_vars

SpecFetch == InitFetch /\ [][FetchNext]_vars

\* the fetch agent and the control loop with responses that hold one
\* well-formed array of one entry, or with a failed read
ControlReads ==
    {ReadErr} \cup {Bytes(<<Text, LBracket, Obj(it), RBracket>>) : it \in LedItems}

\* the steps of the fetch agent
ControlCycle ==
    \/ \E answer \in {"ok", "err", "empty"} : CfDns(answer)
    \/ \E ok \in BOOLEAN : CfConnect(ok)
    \/ \E ok \in BOOLEAN : CfWrite(ok)
    \/ \E read \in ControlReads : CfRead(read)
    \/ CfSleep

ControlNext ==
    \/ \E answer \in {"ok", "err", "empty"} : CfDns(answer)
    \/ \E ok \in BOOLEAN : CfConnect(ok)
    \/ \E ok \in BOOLEAN : CfWrite(ok)
    \/ \E read \in ControlReads : CfRead(read)
    \/ CfSleep
    \/ MainPoll
    \/ MainWake

SpecControl == InitFetch /\ [][ControlNext]_vars

\* the executor polls every woken task, every timer fires, and every
\* socket operation of the fetch agent returns (the socket has a timeout)
SpecControlFair ==
    /\ SpecControl
    /\ WF_vars(MainPoll)
    /\ WF_vars(MainWake)
    /\ WF_vars(ControlCycle)

SpecTelemetry == InitTelemetry /\ [][TelNext]_vars

\* the responses the two agents are given in SpecAgents
AgentsConfigReads == {ReadErr, Bytes(<<LBracket, Obj(Item(DEVICE_ID, "on")), RBracket>>)}
AgentsTelReads == {ReadErr, Bytes(<<"HTTP/1.1 ", "200", " OK">>)}

\* the two agents side by side, each going through its cycles
AgentsNext ==
    \/ \E answer \in {"ok", "err"} : CfDns(answer)
    \/ \E ok \in BOOLEAN : CfConnect(ok)
    \/ \E ok \in BOOLEAN : CfWrite(ok)
    \/ \E read \in AgentsConfigReads : CfRead(read)
    \/ CfSleep
    \/ TelCheck("ok")
    \/ \E answer \in {"ok", "err"} : TelDns(answer)
    \/ \E ok \in BOOLEAN : TelConnect(ok)
    \/ \E ok \in BOOLEAN : TelWrite(ok)
    \/ \E read \in AgentsTelReads : TelRead(read)
    \/ TelClosed
    \/ TelTick

SpecAgents == InitFetch /\ [][AgentsNext]_vars

\* telemetry_task spawned with any TelemetryTaskConfig
InitSpawn ==
    /\ TelLocals
    /\ telPc = "check"
    /\ interval_seconds \in IntervalSeconds
    /\ WifiIdle /\ FetchInit /\ RestIdle

SpecSpawn == InitSpawn /\ [][TelNext]_vars

\* the device side at rest
DeviceIdle == WifiIdle /\ FetchInit /\ TelInit /\ NetIdle /\ SetupInit /\ StoreReady /\ BootDone /\ LockInit

InitConfigSvc == ConfigSvcInit /\ CommsSvcInit /\ DeviceIdle
InitCommsSvc == CommsSvcInit /\ ConfigSvcInit /\ DeviceIdle

SpecConfigSvc == InitConfigSvc /\ [][ConfigSvcNext]_vars

SpecCommsSvc == InitCommsSvc /\ [][CommsSvcNext]_vars

SpecSetup == InitSetup /\ [][SetupNext]_vars

SpecStartup == InitStartup /\ [][StartupNext]_vars

\* the executor polls main whenever one of its timers or awaited calls is due
SpecStartupFair == SpecStartup /\ WF_vars(BootNext)

SpecStore == InitStore /\ [][StoreNext]_vars

\* the executor goes on polling the task it runs, and polls a woken task
SpecStoreFair == SpecStore /\ WF_vars(StoreNext)

\* a due cycle whose sensor reads both succeed
TelDue ==
    /\ telemetry_interval % TELEMETRY_SEND_EVERY = 0
    /\ TelCheck("ok")

\* the executor polls the task whenever it is woken, every timer fires and
\* every socket operation returns (each has a timeout); the ADC does not fail
\* forever
SpecTelemetryFair ==
    /\ SpecTelemetry
    /\ WF_vars(TelNext)
    /\ SF_vars(TelDue)

(***************************************************************************)
(* Properties of the configuration fetch and the store (SpecFetch).        *)
(***************************************************************************)
\* the entries that stand on the wire from position i on: e , e , ...
RECURSIVE WireEntries(_, _)
WireEntries(s, i) ==
    IF i > Len(s) \/ s[i].k # "obj" THEN <<>>
    ELSE <<s[i].item>> \o
         (IF i + 1 <= Len(s) /\ s[i + 1].k = "," THEN WireEntries(s, i + 2) ELSE <<>>)

\* the entries of the array that starts at the first '[' of the last response
RespEntries ==
    IF cfResp.kind = "bytes" /\ cfResp.utf8 /\ Find(cfResp.text, "[") > 0
      THEN WireEntries(cfResp.text, Find(cfResp.text, "[") + 1)
      ELSE <<>>

OwnEntries == SelectSeq(RespEntries, LAMBDA it : it.device_id = DEVICE_ID)

\* C1: every get of the control loop returns None while no fetch cycle has
\* succeeded, and afterwards exactly the entry passed to the most recent
\* set_device_config.
C1_GetReturnsLastSet ==
    [][(mainPc = "poll" /\ mainPc' = "sleep") =>
          /\ mainGot' = cfLastSet
          /\ (cfSets = 0 => mainGot' = None)]_vars

\* a get that returned the second of two different configurations
C1_Witness ==
    /\ mainPc = "sleep"
    /\ cfSets = 2
    /\ cfResult = "Ok"
    /\ cfPre # None
    /\ cfPre # store
    /\ mainGot = store

\* C2: a fetch cycle that fails at any step leaves in the slot exactly the
\* value it held when the cycle started.
C2_FailedFetchKeepsStore ==
    /\ cfResult # "Ok" => store = cfPre
    /\ cfPc = "sleep" =>
          cfResult \in {"Ok", "DNS resolution failed", "No IP addresses returned from DNS",
                        "Connection failed", "Write failed", "Read failed", "Invalid UTF-8",
                        "No JSON array in response", "JSON parse error",
                        "Device config not found"}

\* a stored configuration that survived a cycle that failed in the parser
C2_Witness ==
    /\ cfPc = "sleep"
    /\ cfResult = "JSON parse error"
    /\ store # None

\* C3: the slot is empty or holds an entry of this device, and a cycle that
\* stored something stored the first entry on the wire that carries this
\* device's identifier.
C3_OnlyOwnEntryStored ==
    /\ store = None \/ store[1].device_id = DEVICE_ID
    /\ (cfPc = "sleep" /\ cfResult = "Ok") =>
          /\ OwnEntries # <<>>
          /\ store = Some(OwnEntries[1])

\* a response with an entry of another device ahead of an entry of this one
\* was processed while a configuration was stored
C3_Witness ==
    /\ cfPc = "sleep"
    /\ store # None
    /\ Len(RespEntries) = 2
    /\ RespEntries[1].device_id = OtherId
    /\ RespEntries[2].device_id = DEVICE_ID

\* C4: a response array with more entries than MAX_CONFIGS ends the cycle with
\* the JSON parse error, set_device_config is not called (the slot and the
\* record of the last set are those of the cycle's start), and the task waits
\* for its next cycle.
C4_OverCapacityFails ==
    (cfPc = "sleep" /\ Len(RespEntries) > MAX_CONFIGS) =>
        /\ cfResult = "JSON parse error"
        /\ store = cfPre
        /\ cfLastSet = cfPre
        /\ ENABLED CfSleep

\* a well-formed two-entry array whose first entry is for this device, and
\* differs from the stored one
C4_Witness ==
    /\ cfPc = "sleep"
    /\ cfResp = Bytes(<<LBracket, Obj(Item(DEVICE_ID, "off")), Comma,
                        Obj(Item(OtherId, "on")), RBracket>>)
    /\ store = Some(Item(DEVICE_ID, "on"))

(***************************************************************************)
(* Properties of the telemetry agent (SpecTelemetry, SpecTelemetryFair).   *)
(***************************************************************************)
TelErrors == {"DnsResolve", "Connect", "Write", "Read", "InvalidResponse"}

\* the text read holds the status line of a success
HasSuccessLine(read) ==
    /\ read.utf8
    /\ \E i \in 1..(Len(read.text) - 1) :
          /\ read.text[i] \in {"HTTP/1.1 ", "HTTP/1.0 "}
          /\ read.text[i + 1] = "200"

\* C5: an attempt whose read returned bytes is a success exactly when the text
\* holds `HTTP/1.1 200` or `HTTP/1.0 200`, and returns InvalidResponse for any
\* other content.
C5_NonSuccessIsInvalidResponse ==
    (telPc = "tick" /\ telResp.kind = "bytes") =>
        telResult = (IF HasSuccessLine(telResp) THEN "Ok" ELSE "InvalidResponse")

\* the retry state of the agent as the claims describe it, after f consecutive
\* failed attempts: the attempts of a round, the backoff it starts from and
\* the cap on it
MaxAttempts == 2
InitialBackoff == TELEMETRY_SEND_EVERY
MaxBackoff == 4 * TELEMETRY_SEND_EVERY
RetryCounter(f) == f % MaxAttempts
Backoff(f) == Min(InitialBackoff * 2 ^ (f \div MaxAttempts), MaxBackoff)

\* C6: an attempt that starts after N consecutive failures, N a multiple of
\* the maximum attempts, starts after the delay
\* min(initial_backoff * 2^rounds, max_backoff).
C6_BackoffDoublesPerRound ==
    (/\ telPc = "dns"
     /\ ~skipped
     /\ failStreak > 0
     /\ failStreak < MaxStreak
     /\ RetryCounter(failStreak) = 0) => lastGap = Backoff(failStreak)

\* C7: after a success the retry counter is zero and the next send comes after
\* the fixed interval; after a failure it comes after the current backoff.
C7_BaselineAfterSuccess ==
    /\ telResult = "Ok" => RetryCounter(failStreak) = 0
    /\ (telPc = "dns" /\ ~skipped /\ telAttempts > 1 /\ failStreak < MaxStreak) =>
          lastGap = (IF failStreak = 0 THEN TELEMETRY_SEND_EVERY ELSE Backoff(failStreak))

C9_ExactlyMaxRetriesAttempts ==
    (/\ wfCfg.network # ""
     /\ wfCfg.password # ""
     /\ wfCfg.max_retries >= 1
     /\ wfFailures = wfAttempts) =>
        /\ wfAttempts <= wfCfg.max_retries
        /\ wfAttempts = wfCfg.max_retries => (wfPc = "done" /\ wfResult = "Timeout")
        /\ wfAttempts < wfCfg.max_retries => (wfPc # "done" /\ wfResult = "none")

\* three failed joins with max_retries = 3
C9_Witness ==
    /\ wfCfg.max_retries = 3
    /\ wfFailures = 3
    /\ wfAttempts = 3
    /\ wfPc = "done"
    /\ wfResult = "Timeout"

C11_FixedDelayBetweenAttempts ==
    /\ [](~CredentialsEmpty(wfCfg) =>
            /\ wfResult = "Ok" =>
                  /\ wfPc = "done"
                  /\ wfAttempts = wfFailures + 1
                  /\ wfDelays = wfFailures
                  /\ wfCfg.max_retries >= 1 => wfAttempts <= wfCfg.max_retries
            /\ wfResult = "Timeout" =>
                  /\ wfFailures >= wfCfg.max_retries
                  /\ wfDelays = wfFailures - 1
            /\ wfPc = "join" => wfDelays = wfAttempts
            /\ wfPc = "delay" => wfDelays = wfAttempts - 1
            /\ wfWaited = wfDelays * wfCfg.retry_delay_secs)
    /\ [][wfDelays' # wfDelays =>
            /\ wfDelays' = wfDelays + 1
            /\ wfWaited' - wfWaited = wfCfg.retry_delay_secs]_vars

\* the third attempt of three succeeded, after two delays of two seconds
C11_Witness ==
    /\ wfResult = "Ok"
    /\ wfCfg.max_retries = 3
    /\ wfCfg.retry_delay_secs = 2
    /\ wfAttempts = 3
    /\ wfDelays = 2
    /\ wfWaited = 4

(***************************************************************************)
(* Properties of NetworkStack::setup_and_wait (SpecSetup).                 *)
(***************************************************************************)
SetupOrder == <<"config_up", "link_up", "stack_up", "pause">>

\* C12: while the address configuration has never been up, the call stays in
\* the first loop, returns Err after 30 waits of one second (30 s), and never
\* tests the link predicate nor waits in a later phase.
C12_DhcpTimeoutSkipsLinkPhase ==
    ~everConfigUp =>
        /\ nwPc \in {"start", "dhcpWait", "done"}
        /\ nwLinkPolls = 0
        /\ nwWaited.link = 0 /\ nwWaited.stack = 0 /\ nwWaited.pause = 0
        /\ nwWaited.dhcp = (30 - dhcp_timeout) * 1000
        /\ nwPc = "dhcpWait" => (dhcp_timeout > 0 /\ nwResult = "none")
        /\ nwPc = "done" => (nwResult = "Err" /\ nwWaited.dhcp = 30 * 1000)

\* the call returned Err after 30 s although the link had been up
C12_Witness ==
    /\ ~everConfigUp
    /\ everLinkUp
    /\ nwPc = "done"
    /\ nwResult = "Err"
    /\ nwWaited.dhcp = 30000

\* C13: the link-up phase waits 0.5 s between two tests of the link predicate
\* and fails only when 10 s have been waited in it.
C13_LinkPhaseLastsTenSeconds ==
    /\ nwWaited.link = (LINK_TIMEOUT - link_timeout) * 500
    /\ (nwResult = "Err" /\ nwTrace = <<"config_up">>) => nwWaited.link >= 10 * 1000

\* C14: Ok is returned only after the address configuration, the link and the
\* stack configuration were seen up, in this order, and the 2 s pause was
\* waited; a phase whose timeout runs out returns Err at once: no later phase
\* is entered and no pause is waited.
C14_PhasesInOrder ==
    /\ \E n \in 0..4 : nwTrace = SubSeq(SetupOrder, 1, n)
    /\ nwResult = "Ok" =>
          /\ nwPc = "done"
          /\ nwTrace = SetupOrder
          /\ nwWaited.pause = 2000
    /\ nwResult = "Err" =>
          /\ nwPc = "done"
          /\ Len(nwTrace) <= 2
          /\ nwWaited.pause = 0
          /\ nwTrace = <<>> => (dhcp_timeout = 0 /\ nwLinkPolls = 0 /\ nwWaited.link = 0 /\ nwWaited.stack = 0)
          /\ nwTrace = <<"config_up">> => (link_timeout = 0 /\ nwWaited.stack = 0)
          /\ Len(nwTrace) = 2 => stack_timeout = 0
    /\ nwPc = "dhcpWait" => (dhcp_timeout > 0 /\ nwTrace = <<>>)
    /\ nwPc = "linkWait" => (link_timeout > 0 /\ nwTrace = <<"config_up">>)
    /\ nwPc = "stackWait" => (stack_timeout > 0 /\ Len(nwTrace) = 2)
    /\ nwPc = "pause" => Len(nwTrace) = 3

\* Ok was returned by a call that waited in each of the three loops
C14_Witness ==
    /\ nwResult = "Ok"
    /\ nwWaited.dhcp > 0
    /\ nwWaited.link > 0
    /\ nwWaited.stack > 0
    /\ nwWaited.pause = 2000

\* a call that failed in its third phase
C14_WitnessStackTimeout ==
    /\ nwResult = "Err"
    /\ Len(nwTrace) = 2

(***************************************************************************)
(* Properties of the boot sequence (SpecStartup, SpecStartupFair).         *)
(***************************************************************************)
NothingStarted ==
    /\ DEVICE_CONFIG_REF = "None"
    /\ initCalls = 0
    /\ cfPc = "unspawned"
    /\ telPc = "unspawned"
    /\ mainPc = "boot"

\* C15: while no join has succeeded main makes at most MAX_WIFI_RETRIES (10)
\* attempts; after the tenth failure it is in the error blink loop, which it
\* never leaves; there the store is not initialized, no agent is spawned and
\* the control loop is not reached.
C15_JoinExhaustedIsFatal ==
    /\ [](~joined =>
            /\ bootJoins <= 10
            /\ bootJoins = 10 => bootPc = "fault"
            /\ bootJoins < 10 => bootPc \in {"join", "joinDelay"}
            /\ NothingStarted)
    /\ [](bootPc = "fault" => NothingStarted)
    /\ [][bootPc = "fault" => bootPc' = "fault"]_vars

\* ten joins failed and the error pattern is being blinked
C15_Witness ==
    /\ ~joined
    /\ bootJoins = 10
    /\ wifi_retry_count = 10
    /\ bootPc = "fault"
    /\ faultBlinks = 2

\* C16: each of the three waits of boot is bounded: a wait whose condition
\* does not become true ends in the error blink loop.
C16_EveryBootWaitBounded ==
    /\ (bootPc = "dhcpWait") ~> (configUp \/ bootPc = "fault")
    /\ (bootPc = "linkWait") ~> (linkUp \/ bootPc = "fault")
    /\ (bootPc = "stackWait") ~> (configUp \/ bootPc = "fault")

\* C17: an agent exists only after a join of main succeeded and the waits for
\* the network were over; before the first successful join no agent has made
\* a DNS query, a connection or a send, and main is in none of its waits.
C17_AgentsAfterJoinAndWaits ==
    /\ (cfPc # "unspawned" \/ telPc # "unspawned") => (joined /\ bootReady)
    /\ bootReady => joined
    /\ ~joined =>
          /\ bootPc \in {"join", "joinDelay", "fault"}
          /\ cfResult = "none" /\ cfResp = NoRead
          /\ telResult = "none" /\ telResp = NoRead /\ telAttempts = 0
    /\ bootPc \in {"joined", "dhcpWait", "dhcpUp", "linkWait", "linkUp", "stackWait", "stackUp", "loop"}
          => joined

\* both agents have exchanged data with their servers, after a boot whose
\* first two joins failed
C17_Witness ==
    /\ bootJoins = 3
    /\ joined
    /\ cfResult = "Ok"
    /\ telPc = "tick"
    /\ telResult = "Ok"

\* C18: init_config_store is called once, before an agent is spawned and
\* before the control loop's first get: whenever a task exists the reference
\* is set, so that neither set_device_config nor get_device_config panics.
C18_StoreInitializedOnce ==
    /\ initCalls <= 1
    /\ panicMsg = "none"
    /\ cfPc # "panicked" /\ mainPc # "panicked"
    /\ (cfPc # "unspawned" \/ telPc # "unspawned" \/ mainPc # "boot") =>
          (initCalls = 1 /\ Expect(DEVICE_CONFIG_REF))
    /\ (cfSets > 0 \/ mainGot # None) => Expect(DEVICE_CONFIG_REF)

\* a set of the fetch agent and a get of the control loop have both run
C18_Witness ==
    /\ initCalls = 1
    /\ cfSets = 2
    /\ mainGot = Some(Item(DEVICE_ID, "off"))
    /\ led = "low"

(***************************************************************************)
(* Properties of the store under the executor (SpecStore, SpecStoreFair).  *)
(***************************************************************************)
\* C19: whatever the order of the steps of the fetch agent's set and of the
\* control loop's get, a get returns None or the whole argument of a set that
\* has returned; the slot holds at most one configuration, and outside a set
\* in progress it is exactly the argument of the last set.
C19_GetSeesWholeValues ==
    /\ mainGot = None \/ mainGot[1] \in setArgs
    /\ Len(store) <= 1
    /\ running # "fetch" => store = cfLastSet
    /\ cfLastSet = None \/ cfLastSet[1] \in setArgs
    /\ stPc["main"] = "drop" => (stClone = None \/ stClone[1] \in setArgs)

\* a get returned the second of two configurations while the fetch agent was
\* in the middle of a later cycle
C19_Witness ==
    /\ setArgs = OwnItems
    /\ mainGot = Some(Item(DEVICE_ID, "off"))
    /\ cfLastSet = mainGot
    /\ stPc["fetch"] = "fetching"
    /\ stPc["main"] = "timer"

\* C20: no task is suspended between taking and releasing the lock: the lock
\* is free whenever the executor chooses the task to poll, at most one task
\* holds it, no task ever has to wait for it, and a task that asks for the
\* lock gets it.
C20_LockNeverHeldAcrossSuspension ==
    /\ [](running = "none" => (~locked /\ holders = {}))
    /\ [](/\ Cardinality(holders) <= 1
          /\ locked <=> holders # {}
          /\ holders \subseteq {running})
    /\ [](\A t \in Tasks : stPc[t] # "lockWait")
    /\ \A t \in Tasks : (stPc[t] = "lock") ~> (t \in holders)

\* the control loop holds the lock while the fetch agent, which has stored a
\* configuration before, is suspended in its next cycle
C20_Witness ==
    /\ holders = {"main"}
    /\ locked
    /\ stPc["fetch"] = "fetching"
    /\ cfSets = 1

(***************************************************************************)
(* C21.  On each poll of the control loop the output is driven high when   *)
(* the stored configuration's LED setting is "on" and low when it is       *)
(* "off"; with any other value, an absent LED setting or an empty store    *)
(* the output is left as it was.  The output changes at no other step.     *)
(* The loop polls, waits on its one-second timer, polls again, and never   *)
(* terminates.                                                             *)
(***************************************************************************)
LedOf(slot) == IF slot = None THEN None ELSE slot[1].config.LED

PollDone == mainPc = "poll" /\ mainPc' # "poll"

C21_PollAppliesLed ==
    /\ [][PollDone =>
            /\ mainPc' = "sleep"
            /\ LedOf(store) = Some("on") => led' = "high"
            /\ LedOf(store) = Some("off") => led' = "low"
            /\ LedOf(store) \notin {Some("on"), Some("off")} => led' = led]_vars
    /\ [][~PollDone => led' = led]_vars
    /\ [][mainPc = "sleep" /\ mainPc' # "sleep" => mainPc' = "poll"]_vars
    /\ [](mainPc \in {"poll", "sleep"})
    /\ []<>(mainPc = "poll")
    /\ []<>(mainPc = "sleep")

\* a poll found a setting the firmware gives no meaning to and left the
\* output high
C21_Witness ==
    /\ mainPc = "sleep"
    /\ mainGot = Some(Item(DEVICE_ID, "dim"))
    /\ store = mainGot
    /\ led = "high"

\* a poll found a configuration without an LED setting and left the output
\* high
C21_WitnessAbsent ==
    /\ mainPc = "sleep"
    /\ mainGot = Some(Unset(DEVICE_ID))
    /\ store = mainGot
    /\ led = "high"

(***************************************************************************)
(* C22.  Once the store holds a configuration whose LED setting is "on",   *)
(* the control loop drives the output high by its next poll, which is one  *)
(* timer of 1 s away at most: every poll that finds "on" leaves the output *)
(* high, and under fair scheduling a store holding "on" leads to a high    *)
(* output unless the fetch agent replaces the configuration first.  Until  *)
(* the first matching fetch, the fetches that returned only another        *)
(* device's entry included, the store is None, the control loop has read   *)
(* None and the output is at its initial level.                            *)
(***************************************************************************)
StoreOn == LedOf(store) = Some("on")

C22_OnAppliedByNextPoll ==
    /\ [][PollDone /\ StoreOn => led' = "high"]_vars
    /\ [][mainPc = "sleep" /\ mainPc' # "sleep" => MainWake]_vars
    /\ StoreOn ~> (led = "high" \/ ~StoreOn)
    /\ [](cfSets = 0 => store = None /\ mainGot = None /\ led = "low")

\* the first matching fetch stored "on" and the next poll drove the output
\* high
C22_Witness ==
    /\ cfPre = None
    /\ cfSets = 1
    /\ store = Some(Item(DEVICE_ID, "on"))
    /\ mainGot = store
    /\ mainPc = "sleep"
    /\ led = "high"

\* a fetch returned only an entry for another device: the store is still
\* None and the control loop, having polled, left the output alone
C22_WitnessOtherDevice ==
    /\ cfResp = Bytes(<<Text, LBracket, Obj(Item(OtherId, "on")), RBracket>>)
    /\ cfResult = "Device config not found"
    /\ cfPc = "sleep"
    /\ store = None
    /\ mainPc = "sleep"
    /\ led = "low"

(***************************************************************************)
(* C23.  The device_id field of the body of every telemetry POST is this   *)
(* device's build-time identifier DEVICE_ID, the identifier the            *)
(* configuration fetch puts in its request path and compares the entries   *)
(* of the response with.                                                   *)
(***************************************************************************)
C23_BodyCarriesDeviceId ==
    telBody # NoBody => telBody.device_id = DEVICE_ID

(***************************************************************************)
(* C24.  The slot changes only in the step of the fetch agent that ends a  *)
(* cycle with Ok, a cycle that parsed the response and found an entry of   *)
(* this device, and then holds that entry.  No step of the telemetry       *)
(* agent, whether its send succeeds or fails, and no step of the control   *)
(* loop changes the slot, and a slot that holds a configuration never      *)
(* becomes empty again.                                                    *)
(***************************************************************************)
CycleEnds == cfPc = "read" /\ cfPc' = "sleep"

C24_OnlyMatchingFetchWritesSlot ==
    /\ [][store' # store =>
            /\ CycleEnds
            /\ cfResult' = "Ok"
            /\ cfResp'.kind = "bytes"
            /\ \E i \in 1..Len(cfResp'.text) :
                  /\ cfResp'.text[i].k = "obj"
                  /\ cfResp'.text[i].item.device_id = DEVICE_ID
                  /\ store' = Some(cfResp'.text[i].item)]_vars
    /\ [][~CycleEnds => store' = store]_vars
    /\ [][telVars' # telVars => store' = store]_vars
    /\ [][<<mainPc, mainGot, led>>' # <<mainPc, mainGot, led>> => store' = store]_vars
    /\ [][store # None => store' # None]_vars

\* a configuration was stored, then a fetch cycle failed and a telemetry
\* send failed, and the control loop still reads the configuration
C24_Witness ==
    /\ cfSets = 1
    /\ cfPc = "sleep"
    /\ cfResult = "Read failed"
    /\ telPc = "tick"
    /\ telResult = "Connect"
    /\ store = Some(Item(DEVICE_ID, "on"))
    /\ mainGot = store

(***************************************************************************)
(* Properties of the cloud services (SpecConfigSvc, SpecCommsSvc).         *)
(***************************************************************************)
\* the string is empty or holds only whitespace
Blank(str) == \A i \in 1..Len(str) : str[i] = " "

StoredFor(device_id) == {d \in cfgDocs : d.device_id = device_id}

\* C25: a GET for a device id that has no stored configuration, served by a
\* database that can be reached, is answered with 404 Not Found.
C25_UnknownIdIsNotFound ==
    (/\ cfgReq.kind = "get"
     /\ StoredFor(cfgReq.device_id) = {}
     /\ cfgResp.error # "DatabaseError") => cfgResp.status = 404

C26_WitnessOtherDevice ==
    /\ cfgReq.kind = "get"
    /\ cfgResp.status = 200
    /\ Len(cfgResp.body) = 1
    /\ \E d \in cfgDocs :
          /\ d.device_id # cfgReq.device_id
          /\ \A e \in StoredFor(cfgReq.device_id) : e.timestamp < d.timestamp

(***************************************************************************)
(* C27.  The telemetry endpoint rejects a reading whose device id is       *)
(* empty or whitespace, else one whose timestamp is negative, else one     *)
(* whose map is empty, else one that has an empty value, with the error of *)
(* the first of these checks that fails, and a rejected reading leaves the *)
(* container as it was.                                                    *)
(***************************************************************************)
ReadingError(req) ==
    IF Blank(req.device_id) THEN "InvalidDeviceId"
    ELSE IF req.timestamp < 0 THEN "InvalidTimestamp"
    ELSE IF DOMAIN req.telemetry_data = {} THEN "EmptyTelemetryData"
    ELSE IF \E key \in DOMAIN req.telemetry_data : Blank(req.telemetry_data[key])
      THEN "InvalidTelemetryValue"
    ELSE "none"

C27_WitnessValue ==
    /\ tmReq.kind = "ingest"
    /\ DOMAIN tmReq.telemetry_data = CloudKeys
    /\ \E key \in CloudKeys : ~Blank(tmReq.telemetry_data[key])
    /\ tmResp.error = "InvalidTelemetryValue"

(***************************************************************************)
(* C28.  Config::parse rejects an empty or whitespace device id with       *)
(* InvalidDeviceId, and otherwise an empty map or a map with an empty or   *)
(* whitespace value with InvalidConfig; it returns valid input unchanged.  *)
(* The update endpoint answers rejected input with 400 and stores nothing, *)
(* and stores accepted input as it was sent.                               *)
(***************************************************************************)
ConfigError(device_id, config) ==
    IF Blank(device_id) THEN "InvalidDeviceId"
    ELSE IF DOMAIN config = {} \/ (\E key \in DOMAIN config : Blank(config[key]))
      THEN "InvalidConfig"
    ELSE "none"

C28_ParseRejectsOrReturnsUnchanged ==
    /\ [](\A device_id \in CloudIds, config \in CloudMaps :
             LET parsed == ConfigParse(device_id, config)
             IN  IF ConfigError(device_id, config) = "none"
                   THEN parsed = Ok([device_id |-> device_id, config |-> config])
                   ELSE parsed = Err(ConfigError(device_id, config)))
    /\ [](cfgReq.kind = "update" /\ ConfigError(cfgReq.device_id, cfgReq.config) # "none" =>
             /\ cfgResp.status = 400
             /\ cfgResp.error = ConfigError(cfgReq.device_id, cfgReq.config))
    /\ [][cfgReq'.kind = "update"
            /\ ConfigError(cfgReq'.device_id, cfgReq'.config) # "none" =>
               cfgDocs' = cfgDocs]_vars
    /\ [][cfgDocs' # cfgDocs =>
            /\ cfgReq'.kind = "update"
            /\ cfgResp'.status = 200
            /\ \E d \in cfgDocs' :
                  /\ cfgDocs' = cfgDocs \cup {d}
                  /\ d.device_id = cfgReq'.device_id
                  /\ d.config = cfgReq'.config]_vars

\* an update without a device id and without settings was rejected for its
\* device id, with a document in the container
C28_Witness ==
    /\ cfgReq.kind = "update"
    /\ cfgReq.device_id = <<" ">>
    /\ cfgReq.config = <<>>
    /\ cfgResp.status = 400
    /\ cfgResp.error = "InvalidDeviceId"
    /\ cfgDocs # {}

\* an update whose device id starts with a space was accepted and stored
\* with that space
C28_WitnessAccepted ==
    /\ cfgReq.kind = "update"
    /\ cfgReq.device_id = <<" ", "b">>
    /\ cfgResp.status = 200
    /\ \E d \in cfgDocs : d.device_id = <<" ", "b">> /\ d.config = cfgReq.config

(***************************************************************************)
(* C29.  One telemetry send resolves the host, connects, writes the        *)
(* request, reads the response and closes the socket, in that order.  A    *)
(* failed resolution (an empty address list included) ends the send with   *)
(* DnsResolve, a failed connect with Connect, a failed write with Write, a *)
(* failed read with Read, and no later step is taken.  Ok is returned only *)
(* when the socket has been closed and the pause after the close is over.  *)
(***************************************************************************)
SendOrder == <<"resolve", "connect", "write", "read", "close", "pause">>

\* the error send_telemetry returns when `step` failed
ErrorOf(step) ==
    CASE step = "resolve" -> "DnsResolve"
      [] step = "connect" -> "Connect"
      [] step = "write" -> "Write"
      [] step = "read" -> "Read"
      [] OTHER -> "none"

SendReturns == telPc \notin {"check", "tick"} /\ telPc' \in {"check", "tick"}

\* the steps taken are the first steps of the order, and none follows a
\* step that failed
StepsInOrder ==
    /\ Len(telSteps) <= Len(SendOrder)
    /\ \A i \in 1..Len(telSteps) : telSteps[i].step = SendOrder[i]
    /\ \A i \in 1..(Len(telSteps) - 1) : telSteps[i].outcome = "ok"

LastStep == telSteps[Len(telSteps)]

C29_StepsInOrderAndErrorsPerStep ==
    /\ []StepsInOrder
    /\ [](telSteps # <<>> /\ LastStep.outcome # "ok" =>
             /\ telPc \in {"check", "tick"}
             /\ telResult = ErrorOf(LastStep.step)
             /\ telResult # "none")
    /\ [][SendReturns =>
            \/ telSteps' # <<>> /\ telSteps'[Len(telSteps')].outcome # "ok"
            \/ /\ telResult' = "Ok"
               /\ telPc = "closing"
               /\ [i \in 1..Len(telSteps') |-> telSteps'[i].step] = SendOrder]_vars

\* a send failed at the read: it resolved, connected, wrote and read, and
\* neither closed the socket nor paused
C29_Witness ==
    /\ telPc = "tick"
    /\ telResult = "Read"
    /\ [i \in 1..Len(telSteps) |-> telSteps[i].step] = SubSeq(SendOrder, 1, 4)

\* a send went through all its steps and returned Ok
C29_WitnessOk ==
    /\ telPc = "tick"
    /\ telResult = "Ok"
    /\ [i \in 1..Len(telSteps) |-> telSteps[i].step] = SendOrder

\* the DNS query returned no address and the send ended with DnsResolve
C29_WitnessNoAddress ==
    /\ telPc = "tick"
    /\ telResult = "DnsResolve"
    /\ telSteps = <<Step("resolve", "empty")>>

(***************************************************************************)
(* C30.  Every fetch cycle, whatever its outcome, ends in the same timer   *)
(* of 60 s, and when the timer fires the next cycle starts.  The task      *)
(* never terminates: it is always in a cycle or in the timer, every cycle  *)
(* ends, and every timer fires.                                            *)
(***************************************************************************)
InCycle == cfPc \in {"dns", "connect", "write", "read"}

C30_FixedWaitAfterEveryCycle ==
    /\ [][cfPc = "sleep" /\ cfPc' # "sleep" => cfPc' = "dns" /\ cfWaited' = 60]_vars
    /\ [][InCycle /\ ~InCycle' => cfPc' = "sleep" /\ cfResult' # "none"]_vars
    /\ [](InCycle \/ cfPc = "sleep")
    /\ [](cfWaited \in {0, 60})
    /\ InCycle ~> cfPc = "sleep"
    /\ cfPc = "sleep" ~> cfPc = "dns"

\* the task has waited 60 s after a cycle that failed: nothing was stored
C30_Witness ==
    /\ cfPc = "dns"
    /\ cfWaited = 60
    /\ cfSets = 0

\* the task has waited 60 s after a cycle that stored a configuration
C30_WitnessAfterSuccess ==
    /\ cfPc = "dns"
    /\ cfWaited = 60
    /\ cfSets = 1
    /\ cfPre = store
    /\ store # None


(***************************************************************************)
(* Properties of the response text (SpecFetch).                            *)
(***************************************************************************)
\* the positions of the '[' tokens of a text
Brackets(text) == {i \in 1..Len(text) : text[i].k = "["}

\* the text from its first '[' to its end, empty when it holds none
FromFirstBracket(text) ==
    IF Brackets(text) = {} THEN <<>>
    ELSE SubSeq(text, CHOOSE i \in Brackets(text) : \A j \in Brackets(text) : i <= j,
                Len(text))

\* the step in which a cycle processes the text it read
TextProcessed ==
    /\ cfPc = "read"
    /\ cfPc' = "sleep"
    /\ cfResp'.kind = "bytes"
    /\ cfResp'.utf8

\* C31: the payload of a fetch is the text from the first '[' of the response
\* to its end, whatever precedes it: a response without '[' ends the cycle
\* with the error "No JSON array in response" and no set_device_config, and a
\* response whose text from the first '[' is a well-formed array of one entry
\* for this device ends it with Ok and exactly one set_device_config, called
\* with that entry.
C31_PayloadFromFirstBracket ==
    [][TextProcessed =>
          LET payload == FromFirstBracket(cfResp'.text)
          IN  /\ payload = <<>> =>
                    /\ cfResult' = "No JSON array in response"
                    /\ cfSets' = cfSets
                    /\ store' = store
              /\ \A it \in Items :
                    (it.device_id = DEVICE_ID /\ payload = <<LBracket, Obj(it), RBracket>>) =>
                        /\ cfResult' = "Ok"
                        /\ cfLastSet' = Some(it)
                        /\ store' = Some(it)
                        /\ cfSets' = Sat(cfSets)
                        /\ cfSets < MaxCount => cfSets' = cfSets + 1]_vars

\* a one-entry array for this device that follows a header line was stored
\* over a different configuration
C31_Witness ==
    /\ cfPc = "sleep"
    /\ cfResp = Bytes(<<Text, LBracket, Obj(Item(DEVICE_ID, "off")), RBracket>>)
    /\ cfPre = Some(Item(DEVICE_ID, "on"))
    /\ store = Some(Item(DEVICE_ID, "off"))
    /\ cfSets = 2

\* a response of headers only ended its cycle with the error
C31_WitnessNoBracket ==
    /\ cfPc = "sleep"
    /\ cfResp = Bytes(<<Text>>)
    /\ cfResult = "No JSON array in response"
    /\ store = cfPre
    /\ store # None

(***************************************************************************)
(* Properties of the telemetry task's configuration (SpecSpawn).           *)
(***************************************************************************)
\* C32: consecutive send attempts are separated by interval_seconds
\* one-second ticks, whatever interval_seconds the task was spawned with
\* (cycles in which a sensor read failed make no attempt and are left aside).
C32_IntervalFollowsConfig ==
    (telPc = "dns" /\ telAttempts > 1 /\ ~skipped) => lastGap = interval_seconds

\* a second send attempt of a task spawned with the interval main uses
C32_WitnessMain ==
    /\ telPc = "dns"
    /\ telAttempts > 1
    /\ ~skipped
    /\ interval_seconds = MAIN_INTERVAL_SECONDS
    /\ lastGap = interval_seconds

(***************************************************************************)
(* C33.  Once the slot holds a configuration it never becomes empty again: *)
(* no step of a set or of a get puts None into it, and from the return of  *)
(* the first set_device_config on the slot is occupied and every           *)
(* get_device_config returns Some.                                         *)
(***************************************************************************)
GetReturns == stPc["main"] = "drop" /\ stPc'["main"] = "timer"

C33_SlotNeverEmptiedAgain ==
    /\ [][store' = None => store = None]_vars
    /\ [](setArgs # {} => store # None)
    /\ [][(GetReturns /\ setArgs # {}) => (mainGot' # None /\ mainGot'[1] \in setArgs)]_vars

\* a get that follows the return of the first set returned its configuration,
\* while the fetch agent waits for its next cycle
C33_Witness ==
    /\ setArgs = {Item(DEVICE_ID, "on")}
    /\ mainGot = Some(Item(DEVICE_ID, "on"))
    /\ store = mainGot
    /\ stPc["fetch"] = "sleep"
    /\ stPc["main"] = "timer"
    /\ cfSets = 1

(***************************************************************************)
(* C34.  Each agent holds at most one TCP socket; the socket of an attempt *)
(* is released when the attempt ends, with success or with any error, so   *)
(* that an agent between two attempts holds none; and the sockets of the   *)
(* two agents together with those the stack keeps for itself never exceed  *)
(* the pool of StackResources<5>.                                          *)
(***************************************************************************)
C34_AtMostOneSocketPerAgent ==
    /\ cfSockets \in {0, 1}
    /\ telSockets \in {0, 1}
    /\ cfPc = "sleep" => cfSockets = 0
    /\ telPc \in {"tick", "check"} => telSockets = 0
    /\ cfPc \in {"dns", "connect", "write", "read"} => cfSockets = 1
    /\ telPc \in {"dns", "connect", "write", "read", "closing"} => telSockets = 1
    /\ cfSockets + telSockets + STACK_OWN_SOCKETS <= STACK_RESOURCES

\* both agents hold a socket at once, the fetch agent after a successful
\* attempt and the telemetry agent after a failed one
C34_Witness ==
    /\ cfSockets = 1
    /\ telSockets = 1
    /\ cfPc = "read"
    /\ telPc = "write"
    /\ cfSets = 1
    /\ telResult = "Connect"

\* the fetch agent between two attempts, the first of which failed
C34_WitnessReleasedOnError ==
    /\ cfPc = "sleep"
    /\ cfResult = "Connection failed"
    /\ cfSockets = 0
    /\ telSockets = 1

(***************************************************************************)
(* C35.  With a non-empty network name and password, max_retries = 0 still *)
(* gives exactly one join attempt before the call returns, Timeout if it   *)
(* failed; under persistent failure the call makes max(1, max_retries)     *)
(* attempts and then returns Timeout; and the 8-bit retry counter equals   *)
(* the number of failed attempts, never exceeds max(1, max_retries) and so *)
(* never wraps, up to max_retries = 255.                                   *)
(***************************************************************************)
AttemptsAllowed(config) == IF config.max_retries = 0 THEN 1 ELSE config.max_retries

C35_ZeroRetriesStillOneAttempt ==
    ~CredentialsEmpty(wfCfg) =>
        /\ retry_count = wfFailures
        /\ retry_count <= AttemptsAllowed(wfCfg)
        /\ retry_count < U8
        /\ (wfCfg.max_retries = 0 /\ wfPc = "done") =>
              /\ wfAttempts = 1
              /\ wfResult = (IF wfFailures = 1 THEN "Timeout" ELSE "Ok")
        /\ wfFailures = wfAttempts =>
              /\ wfAttempts <= AttemptsAllowed(wfCfg)
              /\ wfAttempts = AttemptsAllowed(wfCfg) <=> (wfPc = "done" /\ wfResult = "Timeout")
              /\ wfResult \in {"none", "Timeout"}

\* the call with max_retries = 0 returned Timeout after its one failed join
C35_Witness ==
    /\ wfCfg.max_retries = 0
    /\ wfCfg.network = "ssid"
    /\ wfCfg.password = "secret"
    /\ wfPc = "done"
    /\ wfResult = "Timeout"
    /\ wfAttempts = 1
    /\ retry_count = 1

\* the call with the largest max_retries gave up with the counter at 255
C35_WitnessLargest ==
    /\ wfCfg.max_retries = U8 - 1
    /\ wfPc = "done"
    /\ wfResult = "Timeout"
    /\ wfAttempts = U8 - 1
    /\ retry_count = U8 - 1

(***************************************************************************)
(* C36.  A cycle in which the temperature read or the voltage read fails   *)
(* makes no send attempt: no DNS query, connect or write, no socket; the   *)
(* failure is logged and the task goes on to its one-second timer.  The    *)
(* sensors are read again, and a send attempted if the reads succeed, 30   *)
(* one-second ticks after the failed read.                                 *)
(***************************************************************************)
SensorLogs == {"Failed to read temperature", "Failed to read voltage"}

\* the step of the loop that reads the sensors
SensorsRead == telPc = "check" /\ telPc' # "check" /\ sensed' # "none"

C36_SensorFailureSkipsSend ==
    /\ [][(SensorsRead /\ sensed' # "ok") =>
            /\ telPc' = "tick"
            /\ telLog' \in SensorLogs
            /\ sensed' \in {"temperature", "both"} <=> telLog' = "Failed to read temperature"
            /\ telSteps' = <<>>
            /\ telSockets' = 0
            /\ telBody' = NoBody
            /\ <<telAttempts, telResult, failStreak>>' = <<telAttempts, telResult, failStreak>>]_vars
    /\ [][(SensorsRead /\ sensed' = "ok") => telPc' = "dns"]_vars
    /\ [][SensorsRead => (sinceRead = TELEMETRY_SEND_EVERY \/ telemetry_interval = 0)]_vars
    /\ [][(telPc = "check" /\ telPc' # "check" /\ ~SensorsRead) =>
            (telPc' = "tick" /\ sinceRead < TELEMETRY_SEND_EVERY)]_vars
    /\ [](telPc \in {"dns", "connect", "write", "read", "closing"} => sensed = "ok")
    /\ [](telPc = "tick" => ENABLED TelTick)

\* after a cycle whose voltage read failed, the reads of the next due cycle
\* succeeded 30 ticks later and a send attempt began
C36_Witness ==
    /\ telPc = "dns"
    /\ skipped
    /\ sensed = "ok"
    /\ telAttempts = 2
    /\ lastGap = 2 * TELEMETRY_SEND_EVERY
    /\ sinceRead = 0

\* a cycle in which both reads failed has just ended without a send
C36_WitnessBoth ==
    /\ telPc = "tick"
    /\ sensed = "both"
    /\ telLog = "Failed to read temperature"
    /\ telAttempts = 1
    /\ sinceRead = 0

(***************************************************************************)
(* C37.  The third phase of setup_and_wait tests the address configuration *)
(* like the first: a poll of the third phase that finds it up ends the     *)
(* phase, at the first poll without any wait; the phase waits one second   *)
(* only after a poll that found it down, and returns Err only when, after  *)
(* phase one had seen it up, every poll of the phase found it down and ten *)
(* waits of one second have passed.  The link is not tested again.         *)
(***************************************************************************)
\* a step of setup_and_wait that evaluates the test of the third loop
PhaseThreePoll ==
    /\ nwPc \in {"start", "dhcpWait", "linkWait", "stackWait"}
    /\ setupVars' # setupVars
    /\ Len(nwTrace') >= 2

C37_PhaseThreeTestsConfigUp ==
    /\ [][PhaseThreePoll =>
            /\ nwPc' = "pause" <=> configUp
            /\ nwPc' = "stackWait" <=> (~configUp /\ stack_timeout' > 0)
            /\ nwPc' = "done" <=> (~configUp /\ stack_timeout' = 0)
            /\ nwPc' = "done" => nwResult' = "Err"
            /\ nwPc # "stackWait" => stack_timeout' = STACK_TIMEOUT]_vars
    /\ [][nwWaited'.stack # nwWaited.stack =>
            /\ nwPc = "stackWait"
            /\ nwWaited'.stack = nwWaited.stack + 1000
            /\ stack_timeout' = stack_timeout - 1]_vars
    /\ [](nwWaited.stack = (STACK_TIMEOUT - stack_timeout) * 1000)
    /\ []((nwResult = "Err" /\ Len(nwTrace) = 2) =>
            /\ nwTrace[1] = "config_up"
            /\ everConfigUp
            /\ stack_timeout = 0
            /\ nwWaited.stack = 10 * 1000)
    /\ []((nwPc = "pause" /\ stack_timeout = STACK_TIMEOUT) => nwWaited.stack = 0)

\* the third phase timed out: the address configuration, up in phase one, was
\* down at every poll of the phase
C37_Witness ==
    /\ nwPc = "done"
    /\ nwResult = "Err"
    /\ nwTrace = <<"config_up", "link_up">>
    /\ nwWaited.stack = 10000
    /\ nwWaited.dhcp = 0

\* the third phase ended at its first poll although the first had waited
C37_WitnessNoWait ==
    /\ nwPc = "pause"
    /\ nwWaited.dhcp > 0
    /\ nwWaited.stack = 0

\* the third phase ended after a wait, with the link down by then
C37_WitnessLinkDown ==
    /\ nwPc = "pause"
    /\ nwWaited.stack = 3000
    /\ ~linkUp
    /\ configUp

(***************************************************************************)
(* C38.  The response is consumed with a single read.  When a well-formed  *)
(* configuration response arrives in several segments and the first holds  *)
(* no '[', the cycle ends with "No JSON array in response"; when the first *)
(* holds the '[' but not the end of the array, it ends with "JSON parse    *)
(* error".  In both cases set_device_config is not called, the slot is as  *)
(* it was, the task does not panic and goes on to its timer: what the      *)
(* later segments hold makes no difference.                                *)
(***************************************************************************)
\* the array that starts at the first '[' of the text is not closed in it
Incomplete(text) == Brackets(text) # {} /\ \A i \in 1..Len(text) : text[i].k # "]"

C38_OnlyFirstSegmentRead ==
    (cfPc \in {"sleep", "panicked"} /\ cfResp.kind = "bytes" /\ cfResp.utf8 /\ cfResp.rest # <<>>) =>
        /\ Brackets(cfResp.text) = {} => cfResult = "No JSON array in response"
        /\ Incomplete(cfResp.text) => cfResult = "JSON parse error"
        /\ (Brackets(cfResp.text) = {} \/ Incomplete(cfResp.text)) =>
              /\ cfPc = "sleep"
              /\ panicMsg = "none"
              /\ store = cfPre
              /\ cfLastSet = cfPre
              /\ cfSockets = 0
              /\ ENABLED CfSleep

\* the first segment ended before the array: the entry and the ']' that came
\* later were not read, and the stored configuration was kept
C38_Witness ==
    /\ cfPc = "sleep"
    /\ cfResp = Segmented(<<Text>>, <<LBracket, Obj(Item(DEVICE_ID, "off")), RBracket>>)
    /\ cfResult = "No JSON array in response"
    /\ store = Some(Item(DEVICE_ID, "on"))

\* the first segment ended inside the array
C38_WitnessCutArray ==
    /\ cfPc = "sleep"
    /\ cfResp = Segmented(<<LBracket, Obj(Item(DEVICE_ID, "off"))>>, <<RBracket>>)
    /\ cfResult = "JSON parse error"
    /\ store = Some(Item(DEVICE_ID, "on"))
====
